---------------------------- MODULE Spec2Model ----------------------------
(***************************************************************************)
(* Model of the simulation core of caca-tesouro-desktop:                   *)
(*   core/graph.py                  Edge, Graph                            *)
(*   core/algorithms.py             the pathfinding functions              *)
(*   core/systems/combat_system.py  TickCombatInstance, CombatManager      *)
(*   core/systems/monster_system.py MonsterState, MonsterSystem            *)
(*   core/player.py, core/cards.py, core/obstacles.py, core/combat.py,     *)
(*   core/game_state.py                                                    *)
(*                                                                         *)
(* The specifications share the variables; each one moves the group of     *)
(* variables of one component and leaves the others as constructed:        *)
(*   SpecEdge    one Edge under its mutating operations                    *)
(*   SpecGraph   one Graph under add/remove/block/unblock                  *)
(*   SpecAlgo    the pathfinding functions applied to a drawn graph        *)
(*   SpecQuery   every function that reads the graph, on the same graphs   *)
(*   SpecPath    reconstruct_path applied to a drawn predecessor dict      *)
(*   SpecCombat  the combat manager, its encounters, players and monsters  *)
(*   SpecMonster the monster system with the combat manager                *)
(*   SpecWeight  edge weights under add_edge and the rope card             *)
(*   SpecBudget  one encounter run to its turn budget                      *)
(*   SpecPatrol  _next_patrol_point on a drawn patrol list                 *)
(*   SpecMove    move_player on the game of SpecMonster                    *)
(*   SpecDepth   bfs with a depth limit on a drawn graph                   *)
(*   SpecUnknown every graph and pathfinding call given an unknown id      *)
(*   SpecPick    _pick_best_neighbor on a drawn graph                      *)
(*   SpecTurn    end_turn and move_player on the game of SpecMove          *)
(*   SpecLoop    trigger_combat's blocking loop of tick(0.2)               *)
(*                                                                         *)
(* Numbers.  collapse_chance is a float in the source; here it is the      *)
(* exact value in units of 1/ChanceScale (every constant of                *)
(* _update_collapse_chance is a multiple of 1/10000, and the *0.3 of a     *)
(* multiple of 10 is exact).  Times are in milliseconds.                   *)
(***************************************************************************)
EXTENDS Integers, Sequences, FiniteSets, TLC

VARIABLES
    edge,             \* SpecEdge: the Edge object under test
    graph,            \* SpecGraph, SpecAlgo, SpecQuery, SpecMonster: the Graph
    result,           \* SpecEdge, SpecAlgo, SpecQuery, SpecPath, SpecMove: the last
                      \*   call and its return
    players,          \* SpecCombat: Player objects, by player id
    monsters,         \* SpecCombat: Monster objects, by allocation index
    instances,        \* SpecCombat: every TickCombatInstance created so far
    active_instances, \* SpecCombat: CombatManager.active_instances (indices)
    active_monsters,  \* SpecCombat: MonsterSystem.active_monsters, by vertex
    gs_monsters,      \* SpecCombat: GameState.monsters, the legacy list
    grants,           \* SpecCombat: history, how often update() has given
                      \*   each encounter's experience, gold and items
    logs              \* SpecMonster: GameState.logs, the encounter messages
                      \*   of the monster system

vars == <<edge, graph, result, players, monsters, instances,
          active_instances, active_monsters, gs_monsters, grants, logs>>

edgeVars   == <<edge>>
graphVars  == <<graph, result>>
combatVars == <<players, monsters, instances, active_instances,
                active_monsters, gs_monsters, grants, logs>>

Min(a, b) == IF a <= b THEN a ELSE b
Max(a, b) == IF a >= b THEN a ELSE b

(***************************************************************************)
(* core/graph.py : EdgeType, Edge                                          *)
(***************************************************************************)
EdgeTypes == {"NORMAL_TUNNEL", "UNSTABLE_TUNNEL", "SECRET_PASSAGE",
              "COLLAPSED_TUNNEL", "REINFORCED_TUNNEL", "NARROW_PASSAGE",
              "UNDERWATER_PASSAGE"}

\* collapse_chance 1.0 in the model's unit
ChanceScale == 10000

\* base_chance of _update_collapse_chance, by edge type
BaseChance(edge_type) ==
    CASE edge_type = "UNSTABLE_TUNNEL"   -> 1500
      [] edge_type = "COLLAPSED_TUNNEL"  -> 10000
      [] edge_type = "REINFORCED_TUNNEL" -> 100
      [] OTHER                           -> 0

\* min(1.0, base_chance + stability_factor * 0.3): the unclamped variant
ClampChanceMissing(c) == c

\* min(1.0, c)
ClampChance(c) == Min(ChanceScale, c)

\* Edge._update_collapse_chance
Edge_update_collapse_chance(e) ==
    LET stability_factor == 100 - e.stability      \* in hundredths
        c0 == ClampChance(BaseChance(e.edge_type) + stability_factor * 30)
        c1 == IF e.has_fissures THEN c0 + 1000 ELSE c0
        c2 == IF e.reinforced THEN (c1 * 3) \div 10 ELSE c1
    IN  [e EXCEPT !.collapse_chance = c2]

\* Edge.__init__
Edge_init(id, v1_id, v2_id, weight, edge_type, blocked) ==
    Edge_update_collapse_chance(
        [id |-> id, v1_id |-> v1_id, v2_id |-> v2_id, weight |-> weight,
         edge_type |-> edge_type, blocked |-> blocked,
         stability |-> 100, reinforced |-> FALSE, has_fissures |-> FALSE,
         collapse_chance |-> 0])

\* Edge.damage_stability
Edge_damage_stability(e, amount) ==
    Edge_update_collapse_chance(
        [e EXCEPT !.stability = Max(0, e.stability - amount)])

\* Edge.reinforce
Edge_reinforce(e) ==
    Edge_update_collapse_chance(
        [e EXCEPT !.reinforced = TRUE,
                  !.stability = Min(100, e.stability + 30)])

\* Edge.add_fissures
Edge_add_fissures(e) ==
    Edge_update_collapse_chance([e EXCEPT !.has_fissures = TRUE])

\* Edge.attempt_collapse: random.random() is uniform in [0,1), so the roll
\* can fall below collapse_chance iff that is > 0 and at or above it iff it
\* is < 1.  collapsed is the outcome of the roll.
CollapseOutcomes(e) ==
    {b \in BOOLEAN : (b => e.collapse_chance > 0)
                     /\ (~b => e.collapse_chance < ChanceScale)}

\* a collapse that blocks the edge and leaves its type
CollapseKeepsType(e, collapsed) ==
    IF collapsed THEN [e EXCEPT !.blocked = TRUE] ELSE e

Edge_attempt_collapse(e, collapsed) ==
    IF collapsed
    THEN [e EXCEPT !.blocked = TRUE, !.edge_type = "COLLAPSED_TUNNEL"]
    ELSE e


(***************************************************************************)
(* core/graph.py : Vertex, Graph                                           *)
(* vertices, edges and adj are dicts keyed by id: functions whose DOMAIN   *)
(* is the set of keys.  adj[v] is the list of incident edge ids.           *)
(***************************************************************************)
\* d[k] = v on a dict
DictPut(d, k, v) == [x \in (DOMAIN d) \cup {k} |-> IF x = k THEN v ELSE d[x]]

\* del d[k]
DictDel(d, k) == [x \in (DOMAIN d) \ {k} |-> d[x]]

\* list.remove(x): drops the first occurrence of x (x is in the list)
RECURSIVE ListRemove(_, _)
ListRemove(s, x) ==
    IF s = <<>> THEN <<>>
    ELSE IF Head(s) = x THEN Tail(s)
    ELSE <<Head(s)>> \o ListRemove(Tail(s), x)

\* Vertex.__init__ (the fields the modelled operations read)
Vertex_init(id, x, y) ==
    [id |-> id, x |-> x, y |-> y, hazards |-> <<>>, explored |-> FALSE,
     has_monster |-> FALSE, monster_type |-> <<>>]

\* Graph.__init__
Graph_init ==
    [vertices |-> <<>>, edges |-> <<>>, adj |-> <<>>,
     next_v_id |-> 0, next_e_id |-> 0]

\* Graph.add_vertex
Graph_add_vertex(g, x, y) ==
    LET v_id == g.next_v_id
    IN  [g EXCEPT !.next_v_id = v_id + 1,
                  !.vertices = DictPut(g.vertices, v_id, Vertex_init(v_id, x, y)),
                  !.adj = DictPut(g.adj, v_id, <<>>)]

\* the adjacency update of add_edge: both endpoints get the id appended
AdjAppendBoth(adj, v1_id, v2_id, e_id) ==
    LET a1 == [adj EXCEPT ![v1_id] = Append(@, e_id)]
    IN  [a1 EXCEPT ![v2_id] = Append(@, e_id)]

\* an add_edge that looks up the first endpoint only
AddEdgeChecksFirstOnly(g, v1_id, v2_id, weight, edge_type) ==
    IF v1_id \notin DOMAIN g.vertices
    THEN g
    ELSE LET e_id == g.next_e_id
         IN  [g EXCEPT !.next_e_id = e_id + 1,
                       !.edges = DictPut(g.edges, e_id,
                          Edge_init(e_id, v1_id, v2_id, weight, edge_type, FALSE))]

\* Graph.add_edge (returns None, the graph untouched, on an unknown vertex)
Graph_add_edge(g, v1_id, v2_id, weight, edge_type) ==
    IF v1_id \notin DOMAIN g.vertices \/ v2_id \notin DOMAIN g.vertices
    THEN g
    ELSE LET e_id == g.next_e_id
         IN  [g EXCEPT !.next_e_id = e_id + 1,
                       !.edges = DictPut(g.edges, e_id,
                          Edge_init(e_id, v1_id, v2_id, weight, edge_type, FALSE)),
                       !.adj = AdjAppendBoth(g.adj, v1_id, v2_id, e_id)]

\* the adjacency update of remove_edge that forgets the second endpoint
AdjRemoveFirstOnly(adj, v1_id, v2_id, e_id) ==
    [adj EXCEPT ![v1_id] = ListRemove(@, e_id)]

\* the adjacency update of remove_edge: adj[v1].remove(e); adj[v2].remove(e)
AdjRemoveBoth(adj, v1_id, v2_id, e_id) ==
    LET a1 == [adj EXCEPT ![v1_id] = ListRemove(@, e_id)]
    IN  [a1 EXCEPT ![v2_id] = ListRemove(@, e_id)]

\* Graph.remove_edge (returns False, the graph untouched, on an unknown id)
Graph_remove_edge(g, edge_id) ==
    IF edge_id \notin DOMAIN g.edges
    THEN g
    ELSE LET e == g.edges[edge_id]
         IN  [g EXCEPT !.adj = AdjRemoveBoth(g.adj, e.v1_id, e.v2_id, edge_id),
                       !.edges = DictDel(g.edges, edge_id)]

\* Graph.block_edge / Graph.unblock_edge
Graph_set_blocked(g, edge_id, b) ==
    IF edge_id \in DOMAIN g.edges
    THEN [g EXCEPT !.edges[edge_id].blocked = b]
    ELSE g

Graph_block_edge(g, edge_id) == Graph_set_blocked(g, edge_id, TRUE)

Graph_unblock_edge(g, edge_id) == Graph_set_blocked(g, edge_id, FALSE)

\* Graph.neighbors: the list of <<neighbor id, edge id>> in adj order
RECURSIVE NeighborsOf(_, _, _, _)
NeighborsOf(g, vertex_id, include_blocked, ids) ==
    IF ids = <<>> THEN <<>>
    ELSE LET e == g.edges[Head(ids)]
             rest == NeighborsOf(g, vertex_id, include_blocked, Tail(ids))
         IN  IF ~include_blocked /\ e.blocked
             THEN rest
             ELSE <<<<IF e.v1_id = vertex_id THEN e.v2_id ELSE e.v1_id,
                      e.id>>>> \o rest

Graph_neighbors(g, vertex_id, include_blocked) ==
    IF vertex_id \notin DOMAIN g.adj
    THEN <<>>
    ELSE NeighborsOf(g, vertex_id, include_blocked, g.adj[vertex_id])


(***************************************************************************)
(* core/algorithms.py                                                      *)
(* float('inf') is the value INF, compared through DistLess.  An optional  *)
(* argument is <<>> (None) or <<x>>.  A heap of tuples is the set of its   *)
(* tuples: heappop returns the least tuple, and no tuple is pushed twice   *)
(* (a push follows a strict decrease of the vertex's distance).            *)
(***************************************************************************)
INF == -1

\* a < b on distances, INF being larger than every number
DistLess(a, b) == a # INF /\ (b = INF \/ a < b)

\* a new_dist that repeats the distance of the vertex popped
BfsNewDistSame(current_dist) == current_dist

\* new_dist = current_dist + 1
BfsNewDist(current_dist) == current_dist + 1

\* fold of bfs's inner loop over the neighbours of current_id
RECURSIVE BfsVisitNeighbors(_, _, _)
BfsVisitNeighbors(st, nbs, current_dist) ==
    IF nbs = <<>> THEN st
    ELSE LET neighbor_id == Head(nbs)[1]
             new_dist == BfsNewDist(current_dist)
             st2 == IF neighbor_id \notin st.visited
                    THEN [visited |-> st.visited \cup {neighbor_id},
                          distances |-> DictPut(st.distances, neighbor_id, new_dist),
                          queue |-> Append(st.queue, <<neighbor_id, new_dist>>)]
                    ELSE st
         IN  BfsVisitNeighbors(st2, Tail(nbs), current_dist)

\* the neighbours with the blocked edges left in
BfsNeighborsWithBlocked(g, current_id) == Graph_neighbors(g, current_id, TRUE)

\* graph.neighbors(current_id) as bfs calls it: include_blocked is False
BfsNeighbors(g, current_id) == Graph_neighbors(g, current_id, FALSE)

\* queue.pop(0)
BfsPop(queue) == [item |-> Head(queue), rest |-> Tail(queue)]

\* a cut that expands the vertices at max_depth and stops one level later
DepthPassed(max_depth, current_dist) ==
    max_depth # <<>> /\ current_dist > max_depth[1]

\* bfs, "if max_depth is not None and current_dist >= max_depth"
DepthReached(max_depth, current_dist) ==
    max_depth # <<>> /\ current_dist >= max_depth[1]

RECURSIVE BfsLoop(_, _, _)
BfsLoop(g, st, max_depth) ==
    IF st.queue = <<>> THEN st.distances
    ELSE LET popped == BfsPop(st.queue)
             current_id == popped.item[1]
             current_dist == popped.item[2]
             st1 == [st EXCEPT !.queue = popped.rest]
         IN  IF DepthReached(max_depth, current_dist)
             THEN BfsLoop(g, st1, max_depth)
             ELSE BfsLoop(g,
                     BfsVisitNeighbors(st1,
                         BfsNeighbors(g, current_id), current_dist),
                     max_depth)

\* bfs(graph, start_vertex_id, max_depth): the distances dict
Bfs(g, start_vertex_id, max_depth) ==
    IF start_vertex_id \notin DOMAIN g.vertices
    THEN <<>>
    ELSE BfsLoop(g,
            [visited |-> {start_vertex_id},
             distances |-> DictPut(<<>>, start_vertex_id, 0),
             queue |-> <<<<start_vertex_id, 0>>>>],
            max_depth)

\* (d1, id1) < (d2, id2) on heap tuples of dijkstra
DijkstraTupleLess(t1, t2) ==
    t1[1] < t2[1] \/ (t1[1] = t2[1] /\ t1[2] < t2[2])

\* heapq.heappop on dijkstra's heap: the least tuple
DijkstraHeapMin(pq) ==
    CHOOSE t \in pq : \A u \in pq \ {t} : DijkstraTupleLess(t, u)

\* new_dist that counts the edge and forgets its weight
DijkstraNewDistUnweighted(current_dist, e) == current_dist + 1

\* new_dist = current_dist + edge.weight
DijkstraNewDist(current_dist, e) == current_dist + e.weight

\* fold of dijkstra's inner loop over the neighbours of current_id
RECURSIVE DijkstraRelax(_, _, _, _, _)
DijkstraRelax(g, st, nbs, current_id, current_dist) ==
    IF nbs = <<>> THEN st
    ELSE LET neighbor_id == Head(nbs)[1]
             e == g.edges[Head(nbs)[2]]
             new_dist == DijkstraNewDist(current_dist, e)
             st2 == IF DistLess(new_dist, st.distances[neighbor_id])
                    THEN [st EXCEPT
                            !.distances[neighbor_id] = new_dist,
                            !.predecessors = DictPut(@, neighbor_id, current_id),
                            !.pq = @ \cup {<<new_dist, neighbor_id>>}]
                    ELSE st
         IN  DijkstraRelax(g, st2, Tail(nbs), current_id, current_dist)

\* an early exit taken as soon as the target has a tentative distance
DijkstraAtEndWhenSeen(st, current_id, end_vertex_id) ==
    end_vertex_id # <<>> /\ st.distances[end_vertex_id[1]] # INF

\* end_vertex_id is not None and current_id == end_vertex_id
DijkstraAtEnd(st, current_id, end_vertex_id) ==
    end_vertex_id # <<>> /\ current_id = end_vertex_id[1]

RECURSIVE DijkstraLoop(_, _, _)
DijkstraLoop(g, st, end_vertex_id) ==
    IF st.pq = {} THEN st
    ELSE LET t == DijkstraHeapMin(st.pq)
             current_dist == t[1]
             current_id == t[2]
             st1 == [st EXCEPT !.pq = @ \ {t}]
         IN  IF current_id \in st1.visited
             THEN DijkstraLoop(g, st1, end_vertex_id)
             ELSE LET st2 == [st1 EXCEPT !.visited = @ \cup {current_id}]
                  IN  IF DijkstraAtEnd(st2, current_id, end_vertex_id)
                      THEN st2
                      ELSE IF DistLess(st2.distances[current_id], current_dist)
                      THEN DijkstraLoop(g, st2, end_vertex_id)
                      ELSE DijkstraLoop(g,
                              DijkstraRelax(g, st2,
                                  Graph_neighbors(g, current_id, FALSE),
                                  current_id, current_dist),
                              end_vertex_id)

\* a distances dict returned without the entries that are still inf
DijkstraDistancesReachedOnly(distances) ==
    [v \in {x \in DOMAIN distances : distances[x] # INF} |-> distances[v]]

\* the distances dict as returned: every entry of the dict built at the
\* start, the vertices never reached still at float('inf')
DijkstraDistances(distances) == distances

\* dijkstra(graph, start_vertex_id, end_vertex_id):
\* [distances, predecessors]
Dijkstra(g, start_vertex_id, end_vertex_id) ==
    IF start_vertex_id \notin DOMAIN g.vertices
    THEN [distances |-> <<>>, predecessors |-> <<>>]
    ELSE LET st == DijkstraLoop(g,
                     [distances |-> [v \in DOMAIN g.vertices |->
                                       IF v = start_vertex_id THEN 0 ELSE INF],
                      predecessors |-> <<>>,
                      pq |-> {<<0, start_vertex_id>>},
                      visited |-> {}],
                     end_vertex_id)
         IN  [distances |-> DijkstraDistances(st.distances),
              predecessors |-> st.predecessors]

\* heuristic_distance(graph, v1_id, v2_id) for two vertices of the graph:
\* the Euclidean distance, kept as its square h2 (the value is sqrt(h2))
HeuristicSquared(g, v1_id, v2_id) ==
    LET dx == g.vertices[v1_id].x - g.vertices[v2_id].x
        dy == g.vertices[v1_id].y - g.vertices[v2_id].y
    IN  dx * dx + dy * dy

\* An f-score g + sqrt(h2) is the pair <<g, h2>>.
\* FLess(f1, f2): f1[1] + sqrt(f1[2]) < f2[1] + sqrt(f2[2]), decided exactly
FLess(f1, f2) ==
    LET a == f1[2]
        b == f2[2]
        d == f2[1] - f1[1]
    IN  IF d >= 0
        THEN IF a <= b
             THEN d > 0 \/ a < b
             ELSE LET c == a - b - d * d
                  IN  c < 0 \/ c * c < 4 * d * d * b
        ELSE LET c == b - a - d * d
             IN  c > 0 /\ 4 * d * d * a < c * c

\* (f1, id1) < (f2, id2) on heap tuples of a_star
AStarTupleLess(t1, t2) ==
    \/ FLess(t1[1], t2[1])
    \/ (~FLess(t2[1], t1[1]) /\ t1[2] < t2[2])

\* heapq.heappop on a_star's heap: the least tuple
AStarHeapMin(open_set) ==
    CHOOSE t \in open_set : \A u \in open_set \ {t} : AStarTupleLess(t, u)

\* the path reconstruction of a_star: walk came_from from the goal
RECURSIVE AStarWalk(_, _, _)
AStarWalk(came_from, current, start_vertex_id) ==
    IF current \in DOMAIN came_from
    THEN Append(AStarWalk(came_from, came_from[current], start_vertex_id),
                current)
    ELSE <<start_vertex_id>>

\* fold of a_star's inner loop over the neighbours of current_id
RECURSIVE AStarRelax(_, _, _, _, _)
AStarRelax(g, st, nbs, current_id, goal_vertex_id) ==
    IF nbs = <<>> THEN st
    ELSE LET neighbor_id == Head(nbs)[1]
             e == g.edges[Head(nbs)[2]]
             tentative_g == st.g_score[current_id] + e.weight
             st2 == IF DistLess(tentative_g, st.g_score[neighbor_id])
                    THEN [st EXCEPT
                            !.came_from = DictPut(@, neighbor_id, current_id),
                            !.g_score[neighbor_id] = tentative_g,
                            !.open_set = @ \cup
                               {<<<<tentative_g,
                                    HeuristicSquared(g, neighbor_id, goal_vertex_id)>>,
                                  neighbor_id>>}]
                    ELSE st
         IN  AStarRelax(g, st2, Tail(nbs), current_id, goal_vertex_id)

RECURSIVE AStarLoop(_, _, _, _)
AStarLoop(g, st, start_vertex_id, goal_vertex_id) ==
    IF st.open_set = {} THEN [path |-> <<>>, cost |-> INF]
    ELSE LET t == AStarHeapMin(st.open_set)
             current_id == t[2]
             st1 == [st EXCEPT !.open_set = @ \ {t}]
         IN  IF current_id \in st1.visited
             THEN AStarLoop(g, st1, start_vertex_id, goal_vertex_id)
             ELSE IF current_id = goal_vertex_id
             THEN [path |-> AStarWalk(st1.came_from, goal_vertex_id,
                                      start_vertex_id),
                   cost |-> st1.g_score[goal_vertex_id]]
             ELSE AStarLoop(g,
                     AStarRelax(g,
                         [st1 EXCEPT !.visited = @ \cup {current_id}],
                         Graph_neighbors(g, current_id, FALSE),
                         current_id, goal_vertex_id),
                     start_vertex_id, goal_vertex_id)

\* a_star(graph, start_vertex_id, goal_vertex_id): [path, cost]
\* (the f_score dict is written and only read back for the push: the pushed
\* tuple carries it)
AStar(g, start_vertex_id, goal_vertex_id) ==
    IF start_vertex_id \notin DOMAIN g.vertices
       \/ goal_vertex_id \notin DOMAIN g.vertices
    THEN [path |-> <<>>, cost |-> INF]
    ELSE AStarLoop(g,
            [open_set |-> {<<<<0, 0>>, start_vertex_id>>},
             came_from |-> <<>>,
             g_score |-> [v \in DOMAIN g.vertices |->
                            IF v = start_vertex_id THEN 0 ELSE INF],
             visited |-> {}],
            start_vertex_id, goal_vertex_id)

\* a list left in the order the walk built it
NotReversed(s) == s

\* list.reverse()
RECURSIVE Reverse(_)
Reverse(s) == IF s = <<>> THEN <<>> ELSE Append(Reverse(Tail(s)), Head(s))

\* The while loop of reconstruct_path.  The loop has no bound of its own:
\* once it has appended more vertices than predecessors has keys, a key has
\* come up twice, the walk is in a cycle that does not hold start_id and
\* the call never returns (returns |-> FALSE).
RECURSIVE ReconstructWalk(_, _, _, _)
ReconstructWalk(predecessors, start_id, current, path) ==
    IF current = start_id
    THEN [returns |-> TRUE, path |-> Reverse(Append(path, start_id))]
    ELSE IF current \notin DOMAIN predecessors
    THEN [returns |-> TRUE, path |-> <<>>]
    ELSE IF Len(path) >= Cardinality(DOMAIN predecessors)
    THEN [returns |-> FALSE, path |-> <<>>]
    ELSE ReconstructWalk(predecessors, start_id, predecessors[current],
                         Append(path, current))

\* reconstruct_path(predecessors, start_id, end_id)
ReconstructPath(predecessors, start_id, end_id) ==
    IF end_id \notin DOMAIN predecessors /\ end_id # start_id
    THEN [returns |-> TRUE, path |-> <<>>]
    ELSE ReconstructWalk(predecessors, start_id, end_id, <<>>)

\* fold of find_reachable_vertices's inner loop over the neighbours
RECURSIVE ReachableVisit(_, _)
ReachableVisit(st, nbs) ==
    IF nbs = <<>> THEN st
    ELSE LET neighbor_id == Head(nbs)[1]
         IN  ReachableVisit(
                IF neighbor_id \notin st.reachable
                THEN [reachable |-> st.reachable \cup {neighbor_id},
                      queue |-> Append(st.queue, neighbor_id)]
                ELSE st,
                Tail(nbs))

RECURSIVE ReachableLoop(_, _)
ReachableLoop(g, st) ==
    IF st.queue = <<>> THEN st.reachable
    ELSE ReachableLoop(g,
            ReachableVisit([st EXCEPT !.queue = Tail(@)],
                           Graph_neighbors(g, Head(st.queue), FALSE)))

\* find_reachable_vertices(graph, start_vertex_id)
FindReachableVertices(g, start_vertex_id) ==
    IF start_vertex_id \notin DOMAIN g.vertices
    THEN {}
    ELSE ReachableLoop(g, [reachable |-> {start_vertex_id},
                           queue |-> <<start_vertex_id>>])

\* distances.get(k, float('inf'))
DistGet(distances, k) == IF k \in DOMAIN distances THEN distances[k] ELSE INF

\* is_path_blocked(graph, start_id, end_id)
IsPathBlocked(g, start_id, end_id) ==
    DistGet(Dijkstra(g, start_id, <<end_id>>).distances, end_id) = INF

\* the keys of a dict keyed by ids handed out in increasing order, in the
\* order the dict iterates (insertion order)
RECURSIVE DictKeys(_)
DictKeys(ids) ==
    IF ids = {} THEN <<>>
    ELSE LET k == CHOOSE x \in ids : \A y \in ids : x <= y
         IN  <<k>> \o DictKeys(ids \ {k})

\* find_critical_edges without its first check
FcePathExistsAssumed(g, start_id, end_id) == FALSE

\* find_critical_edges's first check: is_path_blocked(graph, start, end)
FceNoPath(g, start_id, end_id) == IsPathBlocked(g, start_id, end_id)

\* a loop body that leaves the edge blocked
FceRestoreMissing(g, edge_id, original_state) == g

\* edge.blocked = original_state
FceRestore(g, edge_id, original_state) ==
    [g EXCEPT !.edges[edge_id].blocked = original_state]

\* the for loop of find_critical_edges over graph.edges.items(); the graph
\* is the one object the loop blocks and restores edges of
RECURSIVE FceLoop(_, _, _, _, _)
FceLoop(g, ids, critical, start_id, end_id) ==
    IF ids = <<>> THEN [critical |-> critical, graph |-> g]
    ELSE LET edge_id == Head(ids)
             original_state == g.edges[edge_id].blocked
             g1 == [g EXCEPT !.edges[edge_id].blocked = TRUE]
             critical1 == IF IsPathBlocked(g1, start_id, end_id)
                          THEN Append(critical, edge_id)
                          ELSE critical
         IN  IF g.edges[edge_id].blocked
             THEN FceLoop(g, Tail(ids), critical, start_id, end_id)
             ELSE FceLoop(FceRestore(g1, edge_id, original_state),
                          Tail(ids), critical1, start_id, end_id)

\* find_critical_edges(graph, start_id, end_id): [critical, graph], the
\* list returned and the graph as the call leaves it
FindCriticalEdges(g, start_id, end_id) ==
    IF FceNoPath(g, start_id, end_id)
    THEN [critical |-> <<>>, graph |-> g]
    ELSE FceLoop(g, DictKeys(DOMAIN g.edges), <<>>, start_id, end_id)

(***************************************************************************)
(* core/systems/monster_system.py : MonsterSystem._pick_best_neighbor      *)
(* best_dist starts at 9999; the distances drawn stay far below it.        *)
(***************************************************************************)
BestDistStart == 9999

\* dist.get(nb, 9999)
PickDistGet(dist, nb) == IF nb \in DOMAIN dist THEN dist[nb] ELSE BestDistStart

\* the for loop over graph.neighbors(from_v): [best_next, best_dist],
\* best_next <<>> for None
RECURSIVE PickLoop(_, _, _)
PickLoop(dist, nbs, best) ==
    IF nbs = <<>> THEN best
    ELSE LET nb == Head(nbs)[1]
             d == PickDistGet(dist, nb)
         IN  PickLoop(dist, Tail(nbs),
                IF DistLess(d, best.best_dist)
                THEN [best_next |-> <<nb>>, best_dist |-> d]
                ELSE best)

\* a pick that falls back on the vertex the monster is on
PickBestOrStay(g, from_v, target_v) ==
    LET dist == Dijkstra(g, from_v, <<target_v>>).distances
    IN  PickLoop(dist, Graph_neighbors(g, from_v, FALSE),
                 [best_next |-> <<from_v>>, best_dist |-> BestDistStart]).best_next

\* MonsterSystem._pick_best_neighbor(from_v, target_v): <<>> or <<vertex>>.
\* dijkstra raises nothing on the graphs drawn, so the except branch is
\* not taken.
MonsterSystem_pick_best_neighbor(g, from_v, target_v) ==
    LET dist == Dijkstra(g, from_v, <<target_v>>).distances
    IN  PickLoop(dist, Graph_neighbors(g, from_v, FALSE),
                 [best_next |-> <<>>, best_dist |-> BestDistStart]).best_next

(***************************************************************************)
(* core/player.py : Player                                                 *)
(* buffs is the list of Buff objects as a dict buff type -> magnitude      *)
(* (add_buff keeps one Buff per type).  Action points, cards, equipment    *)
(* and statistics are not read or written by the combat code and are left  *)
(* out; inventory is the dict item type -> quantity.                       *)
(***************************************************************************)
\* Player.__init__
Player_init(id) ==
    [id |-> id, max_hp |-> 100, hp |-> 100, attack |-> 10, defense |-> 5,
     stamina |-> 100, max_stamina |-> 100,
     level |-> 1, experience |-> 0, experience_to_next_level |-> 100,
     gold |-> 0, inventory |-> <<>>, buffs |-> <<>>, is_alive |-> TRUE]

\* Player.has_buff
Player_has_buff(p, buff_type) == buff_type \in DOMAIN p.buffs

\* Player.take_damage: [player, actual]
Player_take_damage(p, amount) ==
    LET d0 == Max(1, amount - p.defense)
        damage == IF Player_has_buff(p, "WEAKNESS") THEN (d0 * 3) \div 2 ELSE d0
        hp == Max(0, p.hp - damage)
    IN  IF Player_has_buff(p, "INVULNERABILITY")
        THEN [player |-> p, actual |-> 0]
        ELSE [player |-> [p EXCEPT !.hp = hp,
                                   !.is_alive = IF hp <= 0 THEN FALSE ELSE @],
              actual |-> damage]

\* Player.consume_stamina
Player_consume_stamina(p, amount) ==
    IF p.stamina >= amount THEN [p EXCEPT !.stamina = @ - amount] ELSE p

\* Player.level_up (max_action_points / action_points are left out)
Player_level_up(p) ==
    [p EXCEPT !.level = @ + 1,
              !.experience = @ - p.experience_to_next_level,
              !.experience_to_next_level = (@ * 3) \div 2,
              !.max_hp = @ + 10,
              !.hp = p.max_hp + 10,
              !.attack = @ + 2,
              !.defense = @ + 1,
              !.max_stamina = @ + 10,
              !.stamina = p.max_stamina + 10]

\* the while loop of gain_experience
RECURSIVE Player_level_ups(_)
Player_level_ups(p) ==
    IF p.experience >= p.experience_to_next_level
    THEN Player_level_ups(Player_level_up(p))
    ELSE p

\* Player.gain_experience
Player_gain_experience(p, amount) ==
    Player_level_ups([p EXCEPT !.experience = @ + amount])

\* Player.add_gold
Player_add_gold(p, amount) == [p EXCEPT !.gold = @ + amount]

\* Player.add_item(item_type, quantity=1).  The item type is a dict key:
\* a dict passed as item_type is unhashable and inventory.get raises
\* TypeError.  An item is a string (hashable) or a record (a Python dict).
IsDictItem(item) == item \in {"dict:health_potion", "dict:shield",
                              "dict:stamina_potion"}

Player_add_item_raises(item) == IsDictItem(item)

Player_add_item(p, item) ==
    [p EXCEPT !.inventory =
        DictPut(@, item, (IF item \in DOMAIN @ THEN @[item] ELSE 0) + 1)]

\* Player.get_effective_attack
Player_get_effective_attack(p) ==
    LET a0 == IF Player_has_buff(p, "ATTACK_BOOST")
              THEN p.attack + p.buffs["ATTACK_BOOST"] ELSE p.attack
        a1 == IF Player_has_buff(p, "WEAKNESS") THEN (a0 * 7) \div 10 ELSE a0
    IN  Max(1, a1)

\* Player.get_effective_defense
Player_get_effective_defense(p) ==
    Max(0, IF Player_has_buff(p, "DEFENSE_BOOST")
           THEN p.defense + p.buffs["DEFENSE_BOOST"] ELSE p.defense)

(***************************************************************************)
(* core/obstacles.py : Monster                                             *)
(***************************************************************************)
\* Monster._apply_type_stats: the stats the combat code reads
MonsterTypeStats(monster_type) ==
    CASE monster_type = "GOBLIN" ->
            [max_hp |-> 25, attack |-> 6, defense |-> 1, speed |-> 8,
             gold_lo |-> 5, gold_hi |-> 15, exp_reward |-> 15]
      [] monster_type = "ORC" ->
            [max_hp |-> 50, attack |-> 12, defense |-> 5, speed |-> 3,
             gold_lo |-> 20, gold_hi |-> 40, exp_reward |-> 35]
      [] monster_type = "SLIME" ->
            [max_hp |-> 40, attack |-> 4, defense |-> 3, speed |-> 2,
             gold_lo |-> 8, gold_hi |-> 20, exp_reward |-> 18]

\* int(x * multiplier), multiplier = 1.0 + (level - 1) * 0.3
ScaleByLevel(x, level) == (x * (10 + 3 * (level - 1))) \div 10

\* Monster.__init__ (with _apply_type_stats and _scale_by_level)
Monster_init(monster_type, level) ==
    LET t == MonsterTypeStats(monster_type)
    IN  [monster_type |-> monster_type, level |-> level,
         max_hp |-> ScaleByLevel(t.max_hp, level),
         hp |-> ScaleByLevel(t.max_hp, level),
         attack |-> ScaleByLevel(t.attack, level),
         defense |-> ScaleByLevel(t.defense, level),
         speed |-> t.speed,
         exp_reward |-> ScaleByLevel(t.exp_reward, level),
         gold_lo |-> ScaleByLevel(t.gold_lo, level),
         gold_hi |-> ScaleByLevel(t.gold_hi, level)]

\* Monster.take_damage
Monster_take_damage(m, amount) ==
    [m EXCEPT !.hp = Max(0, m.hp - Max(1, amount - m.defense))]

\* Monster.is_alive
Monster_is_alive(m) == m.hp > 0

\* Monster.get_reward_gold: random.randint over the gold range.  The draw
\* is only ever added to player.gold; the two ends of the range are drawn.
GoldRolls(m) == {m.gold_lo, m.gold_hi}

(***************************************************************************)
(* core/combat.py : CombatSystem.calculate_damage / check_critical_hit     *)
(***************************************************************************)
\* calculate_damage(attack, defense, is_critical): with the variance drawn
\* uniformly from [0.8, 1.2], int(base * variance) is any integer from
\* int(0.8 * base) to int(1.2 * base); the result is max(1, that), doubled
\* first on a critical hit.  The set of [raw, crit] outcomes.
DamageRolls(attacker_attack, defender_defense) ==
    LET base == Max(1, attacker_attack - defender_defense)
    IN  {[raw |-> Max(1, IF crit THEN 2 * k ELSE k), crit |-> crit] :
            k \in ((4 * base) \div 5)..((6 * base) \div 5), crit \in BOOLEAN}

(***************************************************************************)
(* core/systems/combat_system.py : TickCombatInstance                      *)
(* An encounter refers to its player by id and to its monster by index.    *)
(* The operations take and return the objects they can reach as a record   *)
(* w = [players, monsters, instances, grants].  tick_log holds one entry   *)
(* per message the tick appends; combined_log and the game log are only    *)
(* written, never read by the modelled code, and are left out.             *)
(***************************************************************************)
\* getattr(player, "attack_cooldown", 1.0): Player has no such attribute
PlayerAttackCooldown == 1000

\* the stamina an attack costs
AttackStaminaCost == 5

\* TickCombatInstance.__init__
TickCombatInstance_init(player_id, monster_idx, m) ==
    LET monster_cooldown == Max(400, 1500 - m.speed * 50)
    IN  [player |-> player_id, monster |-> monster_idx,
         player_cooldown |-> PlayerAttackCooldown,
         player_timer |-> PlayerAttackCooldown,
         monster_cooldown |-> monster_cooldown,
         monster_timer |-> monster_cooldown \div 2,
         turns |-> 0, max_turns |-> 120, ended |-> FALSE,
         tick_log |-> <<>>, rewards_shown |-> FALSE]

\* one message of tick_log
LogEntry(kind, who, amount, crit) ==
    [kind |-> kind, who |-> who, amount |-> amount, crit |-> crit]

\* sum of the raw damage the queued actions of one side carry
RECURSIVE DamageBy(_, _)
DamageBy(actions, who) ==
    IF actions = <<>> THEN 0
    ELSE (IF Head(actions).who = who THEN Head(actions).amount ELSE 0)
         + DamageBy(Tail(actions), who)

\* resolution in which the monster is hit first and a monster that dies
\* loses its queued attack
ApplyActionsSequential(p, m, actions) ==
    LET damage_to_monster == DamageBy(actions, "player")
        m1 == IF damage_to_monster # 0
              THEN Monster_take_damage(m, damage_to_monster) ELSE m
        damage_to_player == IF Monster_is_alive(m1)
                            THEN DamageBy(actions, "monster") ELSE 0
        pr == IF damage_to_player # 0
              THEN Player_take_damage(p, damage_to_player)
              ELSE [player |-> p, actual |-> 0]
    IN  [player |-> pr.player, monster |-> m1,
         log |-> (IF damage_to_player # 0
                  THEN <<LogEntry("received", "player", pr.actual, FALSE)>>
                  ELSE <<>>)
             \o (IF damage_to_monster # 0
                  THEN <<LogEntry("received", "monster",
                            Max(1, damage_to_monster - m.defense), FALSE)>>
                  ELSE <<>>)]

\* tick, "if actions:" - both totals are computed from the queue, then the
\* player takes its damage, then the monster takes its damage
ApplyActions(p, m, actions) ==
    LET damage_to_player == DamageBy(actions, "monster")
        damage_to_monster == DamageBy(actions, "player")
        pr == IF damage_to_player # 0
              THEN Player_take_damage(p, damage_to_player)
              ELSE [player |-> p, actual |-> 0]
        m1 == IF damage_to_monster # 0
              THEN Monster_take_damage(m, damage_to_monster) ELSE m
    IN  [player |-> pr.player, monster |-> m1,
         log |-> (IF damage_to_player # 0
                  THEN <<LogEntry("received", "player", pr.actual, FALSE)>>
                  ELSE <<>>)
             \o (IF damage_to_monster # 0
                  THEN <<LogEntry("received", "monster",
                            Max(1, damage_to_monster - m.defense), FALSE)>>
                  ELSE <<>>)]

\* a timer that the tick leaves where it was
TimerHeld(timer, delta) == timer

\* tick, "self.player_timer += delta" and "self.monster_timer += delta"
TimerAdvance(timer, delta) == timer + delta

\* tick, "player ready to attack?"
PlayerReady(w, i, delta) ==
    /\ w.players[w.instances[i].player].is_alive
    /\ TimerAdvance(w.instances[i].player_timer, delta)
          >= w.instances[i].player_cooldown

\* tick, "monster ready to attack?"
MonsterReady(w, i, delta) ==
    /\ Monster_is_alive(w.monsters[w.instances[i].monster])
    /\ TimerAdvance(w.instances[i].monster_timer, delta)
          >= w.instances[i].monster_cooldown

\* the player's attack is queued: ready and with the stamina it costs
PlayerAttacks(w, i, delta) ==
    /\ PlayerReady(w, i, delta)
    /\ w.players[w.instances[i].player].stamina >= AttackStaminaCost

\* the roll of a side that does not attack: nothing is drawn
NoRoll == [raw |-> 0, crit |-> FALSE]

\* what check_critical_hit and calculate_damage can give the player's
\* attack in this tick of encounter i
PlayerRolls(w, i, delta) ==
    IF ~w.instances[i].ended /\ PlayerAttacks(w, i, delta)
    THEN DamageRolls(
            Player_get_effective_attack(w.players[w.instances[i].player]),
            w.monsters[w.instances[i].monster].defense)
    ELSE {NoRoll}

\* what they can give the monster's attack in this tick of encounter i
MonsterRolls(w, i, delta) ==
    IF ~w.instances[i].ended /\ MonsterReady(w, i, delta)
    THEN DamageRolls(
            w.monsters[w.instances[i].monster].attack,
            Player_get_effective_defense(w.players[w.instances[i].player]))
    ELSE {NoRoll}

\* a tick that never looks at the turn budget
BudgetIgnored(inst, turns) == FALSE

\* tick, "if self.turns >= self.max_turns"
BudgetReached(inst, turns) == turns >= inst.max_turns

\* TickCombatInstance.tick(delta); player_roll and monster_roll are what
\* check_critical_hit and calculate_damage return if the side attacks
TickCombatInstance_tick(w, i, delta, player_roll, monster_roll) ==
    LET inst == w.instances[i]
        p0 == w.players[inst.player]
        m0 == w.monsters[inst.monster]
        player_timer == TimerAdvance(inst.player_timer, delta)
        monster_timer == TimerAdvance(inst.monster_timer, delta)
        player_ready == PlayerReady(w, i, delta)
        player_attacks == PlayerAttacks(w, i, delta)
        p1 == IF player_attacks
              THEN Player_consume_stamina(p0, AttackStaminaCost) ELSE p0
        monster_ready == MonsterReady(w, i, delta)
        player_log ==
            IF player_attacks
            THEN <<LogEntry("attack", "player", player_roll.raw, player_roll.crit)>>
            ELSE IF player_ready
            THEN <<LogEntry("no_stamina", "player", p0.stamina, FALSE)>>
            ELSE <<>>
        monster_log ==
            IF monster_ready
            THEN <<LogEntry("attack", "monster", monster_roll.raw, monster_roll.crit)>>
            ELSE <<>>
        actions == (IF player_attacks THEN player_log ELSE <<>>) \o monster_log
        ap == IF actions # <<>> THEN ApplyActions(p1, m0, actions)
              ELSE [player |-> p1, monster |-> m0, log |-> <<>>]
        turns == IF actions # <<>> THEN inst.turns + 1 ELSE inst.turns
        end_log == IF ~ap.player.is_alive
                   THEN <<LogEntry("defeated", "player", 0, FALSE)>>
                   ELSE IF ~Monster_is_alive(ap.monster)
                   THEN <<LogEntry("victory", "player", 0, FALSE)>>
                   ELSE <<>>
    IN  IF inst.ended THEN w
        ELSE [w EXCEPT
                !.players[inst.player] = ap.player,
                !.monsters[inst.monster] = ap.monster,
                !.instances[i] =
                    [inst EXCEPT
                        !.player_timer = IF player_ready THEN 0 ELSE player_timer,
                        !.monster_timer = IF monster_ready THEN 0 ELSE monster_timer,
                        !.turns = turns,
                        !.ended = \/ ~ap.player.is_alive
                                  \/ ~Monster_is_alive(ap.monster)
                                  \/ BudgetReached(inst, turns),
                        !.tick_log = player_log \o monster_log \o ap.log
                                     \o end_log]]

\* TickCombatInstance.get_result; gold is what get_reward_gold draws.
\* items_gained is only read by update() after the potions have been added.
TickCombatInstance_get_result(w, i, gold) ==
    LET inst == w.instances[i]
        player_won == ~Monster_is_alive(w.monsters[inst.monster])
    IN  [turns_taken |-> inst.turns,
         player_died |-> ~w.players[inst.player].is_alive,
         player_won |-> player_won,
         exp_gained |-> IF player_won
                        THEN w.monsters[inst.monster].exp_reward ELSE 0,
         gold_gained |-> IF player_won THEN gold ELSE 0]

(***************************************************************************)
(* core/systems/combat_system.py : CombatManager                           *)
(* The UI callbacks (on_damage_callback, on_death_callback, the rewards    *)
(* dialog, _force_ui_update) and the grid map's obstacle manager are not   *)
(* modelled.                                                               *)
(***************************************************************************)
\* the dict update() passes to Player.add_item for each health potion
HealthPotion == "dict:health_potion"

\* grants of an encounter nothing has been given for
NoGrants == [xp |-> 0, gold |-> 0, items |-> 0]

\* CombatManager.start_combat: the encounter is appended unconditionally
CombatManager_start_combat(w, active, player_id, monster_idx) ==
    [w |-> [w EXCEPT !.instances = Append(@,
                        TickCombatInstance_init(player_id, monster_idx,
                                                w.monsters[monster_idx])),
                     !.grants = Append(@, NoGrants)],
     active |-> Append(active, Len(w.instances) + 1)]

\* update(), "if not hasattr(inst, '_rewards_shown')": experience and gold
\* are given inside try blocks; the first add_item of the potion loop is
\* outside any try and raises on its dict argument, which ends update().
\* (A monster of level < 1, for which the loop is empty, is never built.)
CombatManager_give_rewards(w, i, res) ==
    LET inst == w.instances[i]
        p1 == Player_gain_experience(w.players[inst.player], res.exp_gained)
        p2 == Player_add_gold(p1, res.gold_gained)
        monster_level == w.monsters[inst.monster].level
        w1 == [w EXCEPT !.instances[i].rewards_shown = TRUE,
                        !.players[inst.player] = p2,
                        !.grants[i].xp = @ + 1,
                        !.grants[i].gold = @ + 1]
    IN  IF monster_level >= 1 /\ Player_add_item_raises(HealthPotion)
        THEN [w |-> w1, raised |-> TRUE]
        ELSE [w |-> IF monster_level >= 1
                    THEN [w1 EXCEPT
                            !.players[inst.player] =
                                Player_add_item(@, HealthPotion),
                            !.grants[i].items = @ + 1]
                    ELSE w1,
              raised |-> FALSE]

\* update(), "if inst.ended:" for encounter i: [w, finished, raised]
CombatManager_finalize(w, i, gold) ==
    LET inst == w.instances[i]
        res == TickCombatInstance_get_result(w, i, gold)
        rw == IF res.player_won /\ ~inst.rewards_shown
              THEN CombatManager_give_rewards(w, i, res)
              ELSE [w |-> w, raised |-> FALSE]
    IN  IF ~inst.ended THEN [w |-> w, finished |-> FALSE, raised |-> FALSE]
        ELSE IF rw.raised THEN [w |-> rw.w, finished |-> FALSE, raised |-> TRUE]
        ELSE [w |-> IF res.player_died
                    THEN [rw.w EXCEPT !.players[inst.player].is_alive = FALSE]
                    ELSE rw.w,
              finished |-> TRUE, raised |-> FALSE]

\* the body of update()'s first loop for encounter i: tick, pump and clear
\* tick_log, finalize.  The set of outcomes over the random draws.
CombatManager_update_one(w, i, delta) ==
    LET ticked == {TickCombatInstance_tick(w, i, delta, pr, mr) :
                      pr \in PlayerRolls(w, i, delta),
                      mr \in MonsterRolls(w, i, delta)}
        pumped == {[t EXCEPT !.instances[i].tick_log = <<>>] : t \in ticked}
        golds(t) == IF /\ t.instances[i].ended
                       /\ ~t.instances[i].rewards_shown
                       /\ ~Monster_is_alive(t.monsters[t.instances[i].monster])
                    THEN GoldRolls(t.monsters[t.instances[i].monster])
                    ELSE {0}
    IN  UNION {{CombatManager_finalize(t, i, gold) : gold \in golds(t)} :
                  t \in pumped}

\* update()'s first loop over list(active_instances): [w, finished, raised]
RECURSIVE CombatManager_update_loop(_, _, _, _)
CombatManager_update_loop(w, todo, finished, delta) ==
    IF todo = <<>>
    THEN {[w |-> w, finished |-> finished, raised |-> FALSE]}
    ELSE UNION {
            IF o.raised
            THEN {[w |-> o.w, finished |-> finished, raised |-> TRUE]}
            ELSE CombatManager_update_loop(o.w, Tail(todo),
                    IF o.finished THEN Append(finished, Head(todo))
                    ELSE finished, delta)
            : o \in CombatManager_update_one(w, Head(todo), delta)}

\* update()'s second loop: the finished encounters leave active_instances
RECURSIVE RemoveFinished(_, _)
RemoveFinished(active, finished) ==
    IF finished = <<>> THEN active
    ELSE RemoveFinished(
            IF \E k \in DOMAIN active : active[k] = Head(finished)
            THEN ListRemove(active, Head(finished)) ELSE active,
            Tail(finished))

\* update()'s second loop: a won encounter's monster leaves gs.monsters
RECURSIVE RemoveDeadMonsters(_, _, _)
RemoveDeadMonsters(w, listed, finished) ==
    IF finished = <<>> THEN listed
    ELSE LET m == w.instances[Head(finished)].monster
         IN  RemoveDeadMonsters(w,
                IF /\ w.instances[Head(finished)].ended
                   /\ ~Monster_is_alive(w.monsters[m])
                   /\ \E k \in DOMAIN listed : listed[k] = m
                THEN ListRemove(listed, m) ELSE listed,
                Tail(finished))

\* CombatManager.update(delta_time): the outcomes
\* [w, active, listed, raised]; an exception leaves both lists as they were
CombatManager_update(w, active, listed, delta) ==
    {[w |-> o.w,
      active |-> IF o.raised THEN active
                 ELSE RemoveFinished(active, o.finished),
      listed |-> IF o.raised THEN listed
                 ELSE RemoveDeadMonsters(o.w, listed, o.finished),
      raised |-> o.raised] :
        o \in CombatManager_update_loop(w, active, <<>>, delta)}

(***************************************************************************)
(* core/game_state.py : GameState.start_combat, trigger_combat,            *)
(* get_monster_at                                                          *)
(***************************************************************************)
\* a guard that never finds an encounter
NoActiveCombat(w, active, player_id) == FALSE

\* trigger_combat's guard: an encounter of this player that has not ended
HasActiveCombat(w, active, player_id) ==
    \E k \in DOMAIN active :
        /\ w.instances[active[k]].player = w.players[player_id].id
        /\ ~w.instances[active[k]].ended

\* trigger_combat's monster: the monster of the vertex's MonsterState,
\* else a new Monster(GOBLIN, player.level) (the vertices passed carry no
\* monster_type: the lookup raises and the except branch is taken).
\* [monsters, monster]
ResolveMonster(w, tracked, player_id, vertex_id) ==
    IF vertex_id \in DOMAIN tracked
    THEN [monsters |-> w.monsters, monster |-> tracked[vertex_id].monster]
    ELSE [monsters |-> Append(w.monsters,
                          Monster_init("GOBLIN", w.players[player_id].level)),
          monster |-> Len(w.monsters) + 1]

\* GameState.trigger_combat(player, vertex) with auto_combat set and no
\* run_combat_blocking attribute, as GameState is constructed: [w, active]
GameState_trigger_combat(w, active, tracked, player_id, vertex_id) ==
    LET r == ResolveMonster(w, tracked, player_id, vertex_id)
    IN  IF HasActiveCombat(w, active, player_id)
        THEN [w |-> w, active |-> active]
        ELSE CombatManager_start_combat([w EXCEPT !.monsters = r.monsters],
                                        active, player_id, r.monster)

\* GameState.get_monster_at(gx, gy) for the cell of a monster obstacle
\* (obstacle data without type or level: a level 1 goblin): the live
\* monster gs.monsters has for the cell, else a new one, appended.
\* Every listed monster is of the one obstacle cell drawn.
\* [monsters, listed]
GameState_get_monster_at(w, listed) ==
    IF listed # <<>>
    THEN [monsters |-> w.monsters, listed |-> listed]
    ELSE [monsters |-> Append(w.monsters, Monster_init("GOBLIN", 1)),
          listed |-> Append(listed, Len(w.monsters) + 1)]

\* GameState.start_combat(player, monster): combat_manager is always set
GameState_start_combat(w, active, player_id, monster_idx) ==
    CombatManager_start_combat(w, active, player_id, monster_idx)

(***************************************************************************)
(* core/systems/monster_system.py : MonsterState, MonsterSystem            *)
(* The operations take and return the game they can reach as a record      *)
(* gs = [w, active, graph, active_monsters, logs].  A MonsterState refers  *)
(* to its monster by index.  time_since_last_move, chase_timer,            *)
(* move_cooldown, the vision fields and engaging_since are written or set  *)
(* once and read by no code that runs (the chase and patrol code is        *)
(* commented out); they are left out.  Of the messages sent to gs.log      *)
(* logs keeps the encounter messages of handle_player_enter_vertex.        *)
(***************************************************************************)
\* MonsterState.__init__
MonsterState_init(monster_idx, vertex_id, patrol_points) ==
    [monster |-> monster_idx, vertex_id |-> vertex_id,
     patrol_points |-> patrol_points, patrol_index |-> 0,
     patrol_forward |-> TRUE, state |-> "idle", aggro_target |-> <<>>,
     engaging |-> FALSE]

\* MonsterType[mtype_str.upper()], MonsterType.GOBLIN when the lookup
\* raises (an unknown name, or None)
MonsterTypeByName(mtype_str) ==
    IF mtype_str \in {<<"goblin">>, <<"orc">>, <<"slime">>}
    THEN CASE mtype_str = <<"goblin">> -> "GOBLIN"
           [] mtype_str = <<"orc">> -> "ORC"
           [] mtype_str = <<"slime">> -> "SLIME"
    ELSE "GOBLIN"

\* the level spawn_from_graph gives the monster of a vertex
SpawnLevel(v_id) == IF v_id = 2 THEN 2 ELSE IF v_id = 5 THEN 4 ELSE 1

\* a spawn that creates a monster on every flagged vertex, tracked or not
SpawnReplacesTracked(gs, v_id) ==
    LET vertex == gs.graph.vertices[v_id]
        monster == Monster_init(MonsterTypeByName(vertex.monster_type),
                                SpawnLevel(v_id))
        ms == MonsterState_init(Len(gs.w.monsters) + 1, v_id, <<v_id>>)
    IN  IF vertex.has_monster
        THEN [gs EXCEPT !.w.monsters = Append(@, monster),
                        !.active_monsters = DictPut(@, v_id, ms)]
        ELSE gs

\* the body of spawn_from_graph's first loop for one vertex
SpawnAt(gs, v_id) ==
    LET vertex == gs.graph.vertices[v_id]
        monster == Monster_init(MonsterTypeByName(vertex.monster_type),
                                SpawnLevel(v_id))
        neighbors == Graph_neighbors(gs.graph, v_id, FALSE)
        patrol_points == IF neighbors = <<>> THEN <<v_id>>
                         ELSE <<v_id, neighbors[1][1]>>
        ms == [MonsterState_init(Len(gs.w.monsters) + 1, v_id, patrol_points)
                 EXCEPT !.state = IF Len(patrol_points) > 1
                                  THEN "patrol" ELSE "idle"]
    IN  IF vertex.has_monster /\ v_id \notin DOMAIN gs.active_monsters
        THEN [gs EXCEPT !.w.monsters = Append(@, monster),
                        !.active_monsters = DictPut(@, v_id, ms)]
        ELSE gs

RECURSIVE SpawnLoop(_, _)
SpawnLoop(gs, ids) ==
    IF ids = <<>> THEN gs
    ELSE SpawnLoop(SpawnAt(gs, Head(ids)), Tail(ids))

\* MonsterSystem.spawn_from_graph: the monsters of the flagged vertices
\* are created, those of the vertices that lost the flag are dropped
MonsterSystem_spawn_from_graph(gs) ==
    LET gs1 == SpawnLoop(gs, DictKeys(DOMAIN gs.graph.vertices))
        kept == {v \in DOMAIN gs1.active_monsters :
                    gs1.graph.vertices[v].has_monster}
    IN  [gs1 EXCEPT !.active_monsters = [v \in kept |-> @[v]]]

\* a cursor that stays on the last waypoint for one more call before it
\* turns back
NextPatrolPointRestsAtEnd(ms) ==
    LET n == Len(ms.patrol_points)
        ms1 == IF ms.patrol_forward
               THEN IF ms.patrol_index + 1 >= n
                    THEN [ms EXCEPT !.patrol_index = n - 1,
                                    !.patrol_forward = FALSE]
                    ELSE [ms EXCEPT !.patrol_index = @ + 1]
               ELSE IF ms.patrol_index - 1 < 0
                    THEN [ms EXCEPT !.patrol_index = 1,
                                    !.patrol_forward = TRUE]
                    ELSE [ms EXCEPT !.patrol_index = @ - 1]
    IN  [ms |-> ms1, point |-> ms1.patrol_points[ms1.patrol_index + 1]]

\* MonsterSystem._next_patrol_point(ms): [ms, point].  patrol_index is
\* 0-based as in the source; the list is indexed from 1.
MonsterSystem_next_patrol_point(ms) ==
    LET n == Len(ms.patrol_points)
        ms1 == IF ms.patrol_forward
               THEN IF ms.patrol_index + 1 >= n
                    THEN [ms EXCEPT !.patrol_index = n - 2,
                                    !.patrol_forward = FALSE]
                    ELSE [ms EXCEPT !.patrol_index = @ + 1]
               ELSE IF ms.patrol_index - 1 < 0
                    THEN [ms EXCEPT !.patrol_index = 1,
                                    !.patrol_forward = TRUE]
                    ELSE [ms EXCEPT !.patrol_index = @ - 1]
    IN  [ms |-> ms1, point |-> ms1.patrol_points[ms1.patrol_index + 1]]

\* MonsterState.__init__: self.vision_range = 3 (graph steps)
VisionRange == 3

\* _detect_player_in_range: the live players whose vertex dijkstra puts
\* within the vision range of the monster at vertex_id (the method returns
\* the first of them in gs.players; no code that runs calls it)
PlayersInRange(gs, vertex_id) ==
    {id \in DOMAIN gs.w.players :
        /\ gs.w.players[id].is_alive
        /\ LET target == gs.w.players[id].current_vertex_id
               d == DistGet(Dijkstra(gs.graph, vertex_id, <<target>>).distances,
                            target)
           IN  d # INF /\ d <= VisionRange}

\* _on_monster_death, "Reset engaging state": what the MonsterState object
\* holds from then on
DeadMonsterState(ms) == [ms EXCEPT !.engaging = FALSE, !.state = "idle"]

\* a death cleanup that leaves the flags of the vertex alone
OnMonsterDeathFlagsKept(gs, v_id) ==
    [gs EXCEPT !.active_monsters = DictDel(@, gs.active_monsters[v_id].vertex_id)]

\* MonsterSystem._on_monster_death.  The MonsterState is set to idle and
\* dropped from active_monsters, after which nothing refers to it.
MonsterSystem_on_monster_death(gs, v_id) ==
    LET v == gs.active_monsters[v_id].vertex_id
        gs1 == [gs EXCEPT !.active_monsters = DictDel(@, v)]
    IN  IF v \in DOMAIN gs1.graph.vertices
        THEN [gs1 EXCEPT !.graph.vertices[v].has_monster = FALSE,
                         !.graph.vertices[v].monster_type = <<>>]
        ELSE gs1

\* an update that sends a live monster after the player it had met
ForcedChase(ms) == [ms EXCEPT !.state = "chase"]

\* the state update() leaves a live monster in: forced to idle
ForcedState(ms) == [ms EXCEPT !.state = "idle", !.aggro_target = <<>>]

\* the body of update's loop for one entry of active_monsters
UpdateMonsterAt(gs, v_id) ==
    LET ms == gs.active_monsters[v_id]
    IN  IF ~Monster_is_alive(gs.w.monsters[ms.monster])
        THEN MonsterSystem_on_monster_death(gs, v_id)
        ELSE IF ms.state # "idle"
        THEN [gs EXCEPT !.active_monsters[v_id] = ForcedState(ms)]
        ELSE gs

RECURSIVE UpdateMonstersLoop(_, _)
UpdateMonstersLoop(gs, ids) ==
    IF ids = <<>> THEN gs
    ELSE UpdateMonstersLoop(UpdateMonsterAt(gs, Head(ids)), Tail(ids))

\* MonsterSystem.update(delta)
MonsterSystem_update(gs, delta) ==
    LET gs1 == MonsterSystem_spawn_from_graph(gs)
    IN  UpdateMonstersLoop(gs1, DictKeys(DOMAIN gs1.active_monsters))

\* self.gs.trigger_combat(player, vertex) on the game record
TriggerFrom(gs, player_id, vertex_id) ==
    LET o == GameState_trigger_combat(gs.w, gs.active, gs.active_monsters,
                                      player_id, vertex_id)
    IN  [gs EXCEPT !.w = o.w, !.active = o.active]

\* MonsterSystem.handle_player_enter_vertex(player, vertex)
MonsterSystem_handle_player_enter_vertex(gs, player_id, vertex_id) ==
    LET vertex == gs.graph.vertices[vertex_id]
    IN  IF ~vertex.has_monster THEN gs
        ELSE IF vertex_id \in DOMAIN gs.active_monsters
        THEN LET ms == gs.active_monsters[vertex_id]
             IN  IF /\ Monster_is_alive(gs.w.monsters[ms.monster])
                    /\ ms.state # "engaging"
                 THEN TriggerFrom(
                         [gs EXCEPT
                            !.active_monsters[vertex_id].state = "engaging",
                            !.logs = Append(@, [kind |-> "encounter",
                                                player |-> player_id,
                                                vertex |-> vertex_id])],
                         player_id, vertex_id)
                 ELSE gs
        ELSE TriggerFrom(
                [gs EXCEPT
                   !.graph.vertices[vertex_id].has_monster = FALSE,
                   !.graph.vertices[vertex_id].monster_type = <<>>,
                   !.logs = Append(@, [kind |-> "improvised",
                                       player |-> player_id,
                                       vertex |-> vertex_id])],
                player_id, vertex_id)

(***************************************************************************)
(* core/player.py, core/cards.py : the player as the game moves it, and    *)
(* the rope card.  A card is [level, value]; CORDA never fails             *)
(* (failure_chance = max(0.0, 0.0 - (level - 1) * 0.05) = 0.0 and          *)
(* random.random() < 0.0 is false).                                        *)
(***************************************************************************)
\* Player.__init__(id, name, color, start_vertex_id): the fields of
\* Player_init and those that movement and cards read and write
Player_new(id, start_vertex_id) ==
    Player_init(id) @@
    [current_vertex_id |-> start_vertex_id,
     action_points |-> 3, max_action_points |-> 3,
     total_cost |-> 0, distance_traveled |-> 0,
     is_stunned |-> FALSE, turns_stunned |-> 0, cards_played |-> 0]

\* Player.consume_action_points
Player_consume_action_points(p, amount) ==
    IF p.action_points >= amount THEN [p EXCEPT !.action_points = @ - amount]
    ELSE p

\* Player.spend_gold
Player_spend_gold(p, amount) ==
    IF p.gold >= amount THEN [p EXCEPT !.gold = @ - amount] ELSE p

\* Card.__init__ of a CORDA card: _calculate_ap_cost, _calculate_stamina_cost
Card_init_corda(value, level) ==
    [value |-> value, level |-> level,
     action_point_cost |-> Max(0, 1 - (level - 1)),
     stamina_cost |-> 5, gold_cost |-> 0]

\* Card.can_use (no card-specific check for CORDA)
Card_can_use(card, p) ==
    /\ p.action_points >= card.action_point_cost
    /\ p.stamina >= card.stamina_cost
    /\ p.gold >= card.gold_cost

\* Card.validate_targets for CORDA; target_edge_id is <<>> (None) or <<id>>
Card_validate_targets(card, p, g, target_edge_id) ==
    /\ target_edge_id # <<>>
    /\ target_edge_id[1] \in DOMAIN g.edges
    /\ p.current_vertex_id \in {g.edges[target_edge_id[1]].v1_id,
                                g.edges[target_edge_id[1]].v2_id}

\* Card.apply, CORDA: edge.weight = max(1, edge.weight - reduction)
CordaWeight(weight, reduction) == Max(1, weight - reduction)

\* Card.apply of a CORDA card: [success, player, graph]
Card_apply(card, p, g, target_edge_id) ==
    IF ~Card_can_use(card, p) \/ ~Card_validate_targets(card, p, g, target_edge_id)
    THEN [success |-> FALSE, player |-> p, graph |-> g]
    ELSE LET p1 == Player_consume_action_points(p, card.action_point_cost)
             p2 == Player_consume_stamina(p1, card.stamina_cost)
             p3 == Player_spend_gold(p2, card.gold_cost)
             reduction == card.value + card.level
         IN  [success |-> TRUE,
              player |-> [p3 EXCEPT !.cards_played = @ + 1],
              graph |-> [g EXCEPT !.edges[target_edge_id[1]].weight =
                                     CordaWeight(@, reduction)]]

(***************************************************************************)
(* core/game_state.py : move_player, enter_vertex, _apply_hazard,          *)
(* check_victory.  The operations work on the game record gs of the        *)
(* monster system and on over = [game_over, winner]; a random draw makes   *)
(* an operation return the set of its outcomes.  No code of the repository *)
(* puts an obstacle on an edge or a vertex of the graph or a treasure      *)
(* chest on a vertex (the obstacle manager works on the grid map), and     *)
(* nothing stuns a player: the obstacle loops of move_player and           *)
(* enter_vertex are empty and can_act is is_alive.  game_mode and the      *)
(* messages are written and never read.                                    *)
(***************************************************************************)
\* Player.add_item(item_type, quantity)
Player_add_item_quantity(p, item_type, quantity) ==
    [p EXCEPT !.inventory =
        DictPut(@, item_type,
                (IF item_type \in DOMAIN @ THEN @[item_type] ELSE 0) + quantity)]

\* Player.has_item(item_type)
Player_has_item(p, item_type) ==
    (IF item_type \in DOMAIN p.inventory THEN p.inventory[item_type] ELSE 0) >= 1

\* Player.can_act
Player_can_act(p) ==
    /\ p.is_alive
    /\ ~(p.is_stunned /\ p.turns_stunned > 0)

\* ResourceManager.generate_exploration_reward: the dict as the list of its
\* items.  Two of the draws: nothing, and the most gold with the most gems
\* and an item.
ExplorationRewards ==
    {<<>>,
     <<<<"gold", 20>>, <<"gems", 5>>, <<"rope", 1>>>>}

\* enter_vertex, "for resource, amount in rewards.items()"
RECURSIVE GiveRewards(_, _)
GiveRewards(p, rewards) ==
    IF rewards = <<>> THEN p
    ELSE LET resource == Head(rewards)[1]
             amount == Head(rewards)[2]
             p1 == Player_add_item_quantity(p, resource, amount)
         IN  GiveRewards(IF resource = "gold" THEN Player_add_gold(p1, amount)
                         ELSE p1,
                         Tail(rewards))

\* GameState._apply_hazard: the players it can leave; the ends of each
\* random range are drawn
GameState_apply_hazard(p, hazard) ==
    CASE hazard = "TOXIC_GAS" ->
            {Player_take_damage(p, d).player : d \in {5, 15}}
      [] hazard = "EXTREME_HEAT" ->
            IF Player_has_item(p, "heat_resistance_potion") THEN {p}
            ELSE {Player_take_damage(p, d).player : d \in {10, 20}}
      [] hazard = "EXTREME_COLD" ->
            {Player_consume_stamina(p, l) : l \in {10, 20}}
      [] hazard = "DARKNESS" ->
            IF Player_has_item(p, "torch") THEN {p}
            ELSE {p} \cup {Player_take_damage(p, d).player : d \in {5, 10}}
      [] OTHER -> {p}

\* enter_vertex, "for hazard in vertex.hazards"
RECURSIVE ApplyHazards(_, _)
ApplyHazards(ps, hazards) ==
    IF hazards = <<>> THEN ps
    ELSE ApplyHazards(UNION {GameState_apply_hazard(q, Head(hazards)) : q \in ps},
                      Tail(hazards))

\* GameState.enter_vertex(player, vertex_id): the games it can leave
GameState_enter_vertex(gs, player_id, vertex_id) ==
    LET vertex == gs.graph.vertices[vertex_id]
        explored ==
            IF vertex.explored THEN {gs}
            ELSE {[gs EXCEPT !.graph.vertices[vertex_id].explored = TRUE,
                             !.w.players[player_id] = GiveRewards(@, r)] :
                     r \in ExplorationRewards}
        hazarded ==
            UNION {{[g1 EXCEPT !.w.players[player_id] = q] :
                       q \in ApplyHazards({g1.w.players[player_id]},
                                          vertex.hazards)} :
                   g1 \in explored}
    IN  {IF vertex.has_monster /\ vertex.monster_type # <<>>
         THEN MonsterSystem_handle_player_enter_vertex(g2, player_id, vertex_id)
         ELSE g2 : g2 \in hazarded}

\* gs.treasure_vertex_id of the default game
TreasureVertex == 6

\* the player min(winners, key=total_cost) returns: the first of the least
\* total cost in the order of gs.players
FirstCheapest(gs, winners) ==
    CHOOSE id \in winners :
        \A other \in winners :
            \/ gs.w.players[id].total_cost < gs.w.players[other].total_cost
            \/ /\ gs.w.players[id].total_cost = gs.w.players[other].total_cost
               /\ id <= other

\* GameState.check_victory
GameState_check_victory(gs, over) ==
    LET winners == {id \in DOMAIN gs.w.players :
                       gs.w.players[id].current_vertex_id = TreasureVertex}
    IN  IF over.game_over \/ winners = {} THEN over
        ELSE [game_over |-> TRUE, winner |-> <<FirstCheapest(gs, winners)>>]

\* a move that costs no stamina
StaminaCostNone(cost) == 0

\* move_player, "stamina_cost = cost * 2"
StaminaCost(cost) == cost * 2

\* a refused move that still charges the cost of the edge
RefusedCharged(gs, over, player_id, edge_id) ==
    {[gs |-> [gs EXCEPT !.w.players[player_id].total_cost =
                           @ + gs.graph.edges[edge_id].weight],
      over |-> over, returned |-> FALSE]}

\* move_player, "return False" after a check on the player and the edge
Refused(gs, over, player_id, edge_id) ==
    {[gs |-> gs, over |-> over, returned |-> FALSE]}

\* GameState.move_player(player_id, edge_id): the outcomes
\* [gs, over, returned]
GameState_move_player(gs, over, player_id, edge_id) ==
    IF player_id \notin DOMAIN gs.w.players \/ edge_id \notin DOMAIN gs.graph.edges
    THEN {[gs |-> gs, over |-> over, returned |-> FALSE]}
    ELSE
    LET player == gs.w.players[player_id]
        e == gs.graph.edges[edge_id]
        cost == e.weight
        stamina_cost == StaminaCost(cost)
        new_vertex_id == IF e.v1_id = player.current_vertex_id
                         THEN e.v2_id ELSE e.v1_id
        collapsed ==
            {[gs |-> [gs EXCEPT
                        !.graph.edges[edge_id] = Edge_attempt_collapse(e, TRUE),
                        !.w.players[player_id] =
                            Player_take_damage(player, damage).player],
              over |-> over, returned |-> FALSE] : damage \in {15, 30}}
        moved ==
            LET p1 == Player_consume_stamina(player, stamina_cost)
                p2 == [p1 EXCEPT !.current_vertex_id = new_vertex_id,
                                 !.total_cost = @ + cost,
                                 !.distance_traveled = @ + cost]
                gs1 == [gs EXCEPT !.w.players[player_id] = p2]
            IN  {[gs |-> g, over |-> GameState_check_victory(g, over),
                  returned |-> TRUE] :
                    g \in GameState_enter_vertex(gs1, player_id, new_vertex_id)}
    IN  IF ~Player_can_act(player) THEN Refused(gs, over, player_id, edge_id)
        ELSE IF e.blocked THEN Refused(gs, over, player_id, edge_id)
        ELSE IF player.current_vertex_id \notin {e.v1_id, e.v2_id}
        THEN Refused(gs, over, player_id, edge_id)
        ELSE IF player.stamina < stamina_cost
        THEN Refused(gs, over, player_id, edge_id)
        ELSE UNION {IF c THEN collapsed ELSE moved : c \in CollapseOutcomes(e)}

(***************************************************************************)
(* Values the variables of the other components keep in a specification    *)
(* that does not move them.                                                *)
(***************************************************************************)
IdleEdge == Edge_init(0, 0, 1, 1, "NORMAL_TUNNEL", FALSE)

IdleEdgeVars == edge = IdleEdge

NoResult == [op |-> "none"]

IdleGraphVars == graph = Graph_init /\ result = NoResult

IdleCombatVars ==
    /\ players = <<>>
    /\ monsters = <<>>
    /\ instances = <<>>
    /\ active_instances = <<>>
    /\ active_monsters = <<>>
    /\ gs_monsters = <<>>
    /\ grants = <<>>
    /\ logs = <<>>

(***************************************************************************)
(* SpecEdge: one Edge, constructed with any type, under damage_stability,  *)
(* reinforce, add_fissures and attempt_collapse.                           *)
(***************************************************************************)
\* damage_stability is called with amounts 0..MaxDamageAmount
MaxDamageAmount == 30

InitEdge ==
    /\ edge \in {Edge_init(0, 0, 1, 1, t, b) : t \in EdgeTypes, b \in BOOLEAN}
    /\ IdleGraphVars
    /\ IdleCombatVars

\* the methods that return None leave result = NoResult
DamageStability ==
    /\ \E amount \in 0..MaxDamageAmount :
          edge' = Edge_damage_stability(edge, amount)
    /\ result' = NoResult
    /\ UNCHANGED <<graph, combatVars>>

Reinforce ==
    /\ edge' = Edge_reinforce(edge)
    /\ result' = NoResult
    /\ UNCHANGED <<graph, combatVars>>

AddFissures ==
    /\ edge' = Edge_add_fissures(edge)
    /\ result' = NoResult
    /\ UNCHANGED <<graph, combatVars>>

\* edge.attempt_collapse(): the value returned is the outcome of the roll
AttemptCollapse ==
    /\ \E collapsed \in CollapseOutcomes(edge) :
          /\ edge' = Edge_attempt_collapse(edge, collapsed)
          /\ result' = [op |-> "attempt_collapse", returned |-> collapsed]
    /\ UNCHANGED <<graph, combatVars>>

NextEdge == DamageStability \/ Reinforce \/ AddFissures \/ AttemptCollapse

SpecEdge == InitEdge /\ [][NextEdge]_vars

ChanceInUnitInterval(e) ==
    e.collapse_chance >= 0 /\ e.collapse_chance <= ChanceScale

\* C9: an edge of any type that has only been through damage_stability
\* (amount >= 0) and reinforce calls (no fissures were added) has its
\* collapse_chance within [0,1].  The formula covers every state without
\* fissures, also those that attempt_collapse produced.
C9_DamageReinforceKeepChanceInRange ==
    ~edge.has_fissures => ChanceInUnitInterval(edge)

\* C9 witness: a collapsed-type edge that was damaged and then reinforced,
\* where the clamp of the unclamped 1.0 + 0.3 * factor decided the value.
C9_Witness ==
    /\ edge.edge_type = "COLLAPSED_TUNNEL"
    /\ edge.reinforced
    /\ ~edge.has_fissures
    /\ edge.stability < 70
    /\ edge.collapse_chance = 3000

\* C10: collapse_chance of the edge is within [0,1] in every reachable
\* state, whatever its type and whatever operations it went through.
C10_ChanceAlwaysInRange == ChanceInUnitInterval(edge)

\* C30: attempt_collapse returns True only with blocked set and the type
\* retagged COLLAPSED_TUNNEL; a call that returns False leaves blocked,
\* edge_type, stability and collapse_chance as they were; and a call on an
\* edge whose collapse_chance is 0 returns False
C30_CollapseReturnMatchesEffect ==
    [][result'.op = "attempt_collapse" =>
          /\ result'.returned
                => edge'.blocked /\ edge'.edge_type = "COLLAPSED_TUNNEL"
          /\ ~result'.returned
                => /\ edge'.blocked = edge.blocked
                   /\ edge'.edge_type = edge.edge_type
                   /\ edge'.stability = edge.stability
                   /\ edge'.collapse_chance = edge.collapse_chance
          /\ edge.collapse_chance = 0 => ~result'.returned]_vars

\* a normal tunnel with fissures (collapse_chance 0.1) has collapsed
C30_Witness ==
    /\ result.op = "attempt_collapse"
    /\ result.returned
    /\ edge.blocked
    /\ edge.edge_type = "COLLAPSED_TUNNEL"
    /\ edge.has_fissures
    /\ edge.collapse_chance = 1000

\* C37: collapse_chance is the value _update_collapse_chance computes from
\* the edge's current type, stability, reinforced flag and fissure flag,
\* after every edge operation (a collapse that retags the edge included)
C37_ChanceIsDerived ==
    edge.collapse_chance = Edge_update_collapse_chance(edge).collapse_chance

(***************************************************************************)
(* SpecGraph: a Graph under add_vertex, add_edge, remove_edge, block_edge  *)
(* and unblock_edge, called with known and unknown ids.                    *)
(***************************************************************************)
\* add_vertex is called while fewer than MaxGraphVertices vertices exist,
\* add_edge while fewer than MaxGraphEdges edge ids were handed out
MaxGraphVertices == 3
MaxGraphEdges == 2

GraphPositions == {<<0, 0>>}
GraphWeights == {1, 2}

InitGraph ==
    /\ IdleGraphVars
    /\ IdleEdgeVars
    /\ IdleCombatVars

AddVertex ==
    /\ graph.next_v_id < MaxGraphVertices
    /\ \E p \in GraphPositions : graph' = Graph_add_vertex(graph, p[1], p[2])
    /\ UNCHANGED <<edge, result, combatVars>>

AddEdge ==
    /\ graph.next_e_id < MaxGraphEdges
    /\ \E v1 \in 0..MaxGraphVertices, v2 \in 0..MaxGraphVertices,
          w \in GraphWeights :
          graph' = Graph_add_edge(graph, v1, v2, w, "NORMAL_TUNNEL")
    /\ UNCHANGED <<edge, result, combatVars>>

RemoveEdge ==
    /\ \E e \in 0..MaxGraphEdges : graph' = Graph_remove_edge(graph, e)
    /\ UNCHANGED <<edge, result, combatVars>>

BlockEdge ==
    /\ \E e \in 0..MaxGraphEdges : graph' = Graph_block_edge(graph, e)
    /\ UNCHANGED <<edge, result, combatVars>>

UnblockEdge ==
    /\ \E e \in 0..MaxGraphEdges : graph' = Graph_unblock_edge(graph, e)
    /\ UNCHANGED <<edge, result, combatVars>>

NextGraph == AddVertex \/ AddEdge \/ RemoveEdge \/ BlockEdge \/ UnblockEdge

SpecGraph == InitGraph /\ [][NextGraph]_vars

SeqRange(s) == {s[i] : i \in DOMAIN s}

\* C5: the adjacency index agrees with the edge map: adj has one list per
\* vertex, and an edge id is in adj[v] iff that edge exists and v is one of
\* its endpoints (so a removed edge's id is in no adjacency list).
C5_AdjacencyConsistent ==
    /\ DOMAIN graph.adj = DOMAIN graph.vertices
    /\ \A v \in DOMAIN graph.adj : \A e \in 0..MaxGraphEdges :
          (e \in SeqRange(graph.adj[v]))
             <=> (/\ e \in DOMAIN graph.edges
                  /\ v \in {graph.edges[e].v1_id, graph.edges[e].v2_id})

\* C5 witness: an edge was added and removed again while another edge is
\* still there, listed by its endpoints.
C5_Witness ==
    /\ graph.next_e_id = 2
    /\ DOMAIN graph.edges = {1}
    /\ graph.edges[1].v1_id # graph.edges[1].v2_id
    /\ \A v \in DOMAIN graph.adj : 0 \notin SeqRange(graph.adj[v])

(***************************************************************************)
(* SpecAlgo: bfs, dijkstra and a_star applied to a graph drawn at Init.    *)
(* The graphs are built with add_vertex, add_edge and block_edge: the four *)
(* vertices of tests/test_algorithms.py at their positions, and for each   *)
(* pair of AlgoPairs no edge, a blocked edge, or an edge of a weight of    *)
(* AlgoWeights, at most MaxAlgoEdges edges in all.  The first four pairs   *)
(* are the test's edges in the test's order.  The searches return values   *)
(* and leave the graph alone, so a second call would reach only states a   *)
(* first call reaches: each drawn graph is queried once.                   *)
(***************************************************************************)
MaxAlgoEdges == 4

AlgoPositions == <<<<0, 0>>, <<10, 0>>, <<0, 10>>, <<10, 10>>>>
AlgoPairs == <<<<0, 1>>, <<0, 2>>, <<1, 3>>, <<2, 3>>, <<0, 3>>, <<1, 2>>>>
AlgoWeights == {1, 2, 5}
AlgoVertexIds == 0..(Len(AlgoPositions) - 1)

\* what a pair gets: 0 no edge, -1 a blocked edge (weight 1), w an edge
AlgoEdgeChoices == {-1, 0} \cup AlgoWeights

RECURSIVE BuildVertices(_, _)
BuildVertices(g, i) ==
    IF i > Len(AlgoPositions) THEN g
    ELSE BuildVertices(
            Graph_add_vertex(g, AlgoPositions[i][1], AlgoPositions[i][2]),
            i + 1)

RECURSIVE BuildEdges(_, _, _)
BuildEdges(g, choice, i) ==
    IF i > Len(AlgoPairs) THEN g
    ELSE LET pr == AlgoPairs[i]
             w == IF choice[i] = -1 THEN 1 ELSE choice[i]
             g1 == Graph_add_edge(g, pr[1], pr[2], w, "NORMAL_TUNNEL")
             g2 == IF choice[i] = -1
                   THEN Graph_block_edge(g1, g.next_e_id)
                   ELSE g1
         IN  BuildEdges(IF choice[i] = 0 THEN g ELSE g2, choice, i + 1)

BuildGraph(choice) == BuildEdges(BuildVertices(Graph_init, 1), choice, 1)

AlgoChoices ==
    {c \in [1..Len(AlgoPairs) -> AlgoEdgeChoices] :
        Cardinality({i \in 1..Len(AlgoPairs) : c[i] # 0}) <= MaxAlgoEdges}

\* the graph of tests/test_algorithms.py setUp
TestGraph == BuildGraph(<<1, 5, 2, 1, 0, 0>>)

InitAlgo ==
    /\ graph \in {BuildGraph(c) : c \in AlgoChoices}
    /\ result = NoResult
    /\ IdleEdgeVars
    /\ IdleCombatVars

RunBfs ==
    /\ result = NoResult
    /\ \E start \in AlgoVertexIds :
          result' = [op |-> "bfs", start |-> start,
                     distances |-> Bfs(graph, start, <<>>)]
    /\ UNCHANGED <<graph, edge, combatVars>>

RunDijkstra ==
    /\ result = NoResult
    /\ \E start \in AlgoVertexIds,
          end \in {<<>>} \cup {<<v>> : v \in AlgoVertexIds} :
          LET r == Dijkstra(graph, start, end)
          IN  result' = [op |-> "dijkstra", start |-> start, end |-> end,
                         distances |-> r.distances,
                         predecessors |-> r.predecessors]
    /\ UNCHANGED <<graph, edge, combatVars>>

RunAStar ==
    /\ result = NoResult
    /\ \E start \in AlgoVertexIds, goal \in AlgoVertexIds :
          LET r == AStar(graph, start, goal)
          IN  result' = [op |-> "a_star", start |-> start, goal |-> goal,
                         path |-> r.path, cost |-> r.cost]
    /\ UNCHANGED <<graph, edge, combatVars>>

RunFindReachableVertices ==
    /\ result = NoResult
    /\ \E start \in AlgoVertexIds :
          result' = [op |-> "find_reachable_vertices", start |-> start,
                     reachable |-> FindReachableVertices(graph, start)]
    /\ UNCHANGED <<graph, edge, combatVars>>

\* find_critical_edges blocks and restores edges of the graph it is given:
\* the graph after the call is the graph the call leaves
RunFindCriticalEdges ==
    /\ result = NoResult
    /\ \E start \in AlgoVertexIds, end \in AlgoVertexIds :
          LET r == FindCriticalEdges(graph, start, end)
          IN  /\ result' = [op |-> "find_critical_edges", start |-> start,
                            end |-> end, critical |-> r.critical]
              /\ graph' = r.graph
    /\ UNCHANGED <<edge, combatVars>>

RunPickBestNeighbor ==
    /\ result = NoResult
    /\ \E from_v \in AlgoVertexIds, target_v \in AlgoVertexIds :
          result' = [op |-> "pick_best_neighbor", from_v |-> from_v,
                     target_v |-> target_v,
                     best_next |->
                        MonsterSystem_pick_best_neighbor(graph, from_v, target_v)]
    /\ UNCHANGED <<graph, edge, combatVars>>

NextAlgo ==
    \/ RunBfs
    \/ RunDijkstra
    \/ RunAStar

SpecAlgo == InitAlgo /\ [][NextAlgo]_vars

\* SpecQuery: every function that is handed the graph, the three searches
\* and the three that are built on them, applied to the same drawn graphs
NextQuery ==
    \/ NextAlgo
    \/ RunFindReachableVertices
    \/ RunFindCriticalEdges
    \/ RunPickBestNeighbor

SpecQuery == InitAlgo /\ [][NextQuery]_vars

(***************************************************************************)
(* What the claims compare the searches with: the least total weight of a  *)
(* walk over unblocked edges, by relaxing every edge of the edge map       *)
(* |V| - 1 times (it reads graph.edges, not the adjacency lists).          *)
(***************************************************************************)
\* the unblocked edges as <<v1, v2, weight>>, both ways round
UnblockedArcs(g) ==
    UNION {{<<g.edges[e].v1_id, g.edges[e].v2_id, g.edges[e].weight>>,
            <<g.edges[e].v2_id, g.edges[e].v1_id, g.edges[e].weight>>} :
           e \in {x \in DOMAIN g.edges : ~g.edges[x].blocked}}

\* one pass of relaxation over a set of arcs (Bellman-Ford)
RECURSIVE RelaxArcs(_, _, _)
RelaxArcs(arcs, d, unit) ==
    IF arcs = {} THEN d
    ELSE LET a == CHOOSE x \in arcs : TRUE
             nd == d[a[1]] + (IF unit THEN 1 ELSE a[3])
         IN  RelaxArcs(arcs \ {a},
                IF d[a[1]] # INF /\ DistLess(nd, d[a[2]])
                THEN [d EXCEPT ![a[2]] = nd]
                ELSE d,
                unit)

\* rounds passes over all the arcs
RECURSIVE RelaxAll(_, _, _, _)
RelaxAll(arcs, d, unit, rounds) ==
    IF rounds = 0 THEN d
    ELSE RelaxAll(arcs, RelaxArcs(arcs, d, unit), unit, rounds - 1)

\* least total weight from start to every vertex (INF: unreachable)
ShortestWeights(g, start) ==
    RelaxAll(UnblockedArcs(g),
             [v \in DOMAIN g.vertices |-> IF v = start THEN 0 ELSE INF],
             FALSE, Cardinality(DOMAIN g.vertices))

\* least number of edges from start to every vertex (INF: unreachable)
ShortestHops(g, start) ==
    RelaxAll(UnblockedArcs(g),
             [v \in DOMAIN g.vertices |-> IF v = start THEN 0 ELSE INF],
             TRUE, Cardinality(DOMAIN g.vertices))

\* C6: whenever the goal can be reached from the start over unblocked
\* edges (all weights are >= 1 here), the cost a_star returns equals the
\* distance dijkstra(start) gives the goal.
C6_AStarCostEqualsDijkstra ==
    (result.op = "a_star"
       /\ ShortestHops(graph, result.start)[result.goal] # INF)
    => result.cost = Dijkstra(graph, result.start, <<>>).distances[result.goal]

\* C7: dijkstra(start) maps every vertex reachable over unblocked edges to
\* the least total weight of an unblocked path from start, and on the
\* test's graph dijkstra(v0) gives v0:0, v1:1, v3:3, v2:4.
C7_DijkstraShortest ==
    (result.op = "dijkstra" /\ result.end = <<>>)
    => LET sw == ShortestWeights(graph, result.start)
       IN  /\ \A v \in DOMAIN graph.vertices :
                 sw[v] # INF
                 => /\ v \in DOMAIN result.distances
                    /\ result.distances[v] = sw[v]
           /\ (graph = TestGraph /\ result.start = 0)
              => /\ result.distances[0] = 0
                 /\ result.distances[1] = 1
                 /\ result.distances[3] = 3
                 /\ result.distances[2] = 4

\* C7 witness: dijkstra(v0) has run on the test's graph, where the direct
\* edge v0-v2 of weight 5 is not the shortest way to v2.
C7_Witness ==
    /\ graph = TestGraph
    /\ result.op = "dijkstra"
    /\ result.end = <<>>
    /\ result.start = 0
    /\ result.distances[2] = 4

\* C8: bfs(start) maps every vertex reachable over unblocked edges to the
\* number of edges of a shortest unblocked path (start itself to 0).
C8_BfsShortestHops ==
    result.op = "bfs"
    => LET sh == ShortestHops(graph, result.start)
       IN  /\ result.distances[result.start] = 0
           /\ \A v \in DOMAIN graph.vertices :
                 sh[v] # INF
                 => /\ v \in DOMAIN result.distances
                    /\ result.distances[v] = sh[v]

\* C8 witness: bfs has run on a graph where a vertex is three edges away
\* and a blocked edge would have been a shortcut.
C8_Witness ==
    /\ result.op = "bfs"
    /\ \E v \in DOMAIN result.distances : result.distances[v] = 3
    /\ \E e \in DOMAIN graph.edges : graph.edges[e].blocked


\* the unblocked neighbours of a vertex
UnblockedNeighbors(g, v) ==
    {a[2] : a \in {x \in UnblockedArcs(g) : x[1] = v}}

\* C14: for a target that can be reached from from_v (and is not from_v),
\* _pick_best_neighbor returns an unblocked neighbour of from_v whose
\* shortest-path distance to the target is the least among the unblocked
\* neighbours, so the step brings the monster strictly closer to the target.
C14_PickBestNeighborApproachesTarget ==
    (/\ result.op = "pick_best_neighbor"
     /\ result.from_v # result.target_v
     /\ ShortestWeights(graph, result.target_v)[result.from_v] # INF)
    => LET to_target == ShortestWeights(graph, result.target_v)
           nbs == UnblockedNeighbors(graph, result.from_v)
       IN  /\ result.best_next # <<>>
           /\ result.best_next[1] \in nbs
           /\ \A nb \in nbs :
                 ~DistLess(to_target[nb], to_target[result.best_next[1]])
           /\ DistLess(to_target[result.best_next[1]],
                       to_target[result.from_v])

\* the unblocked edges whose blocking alone cuts end off from start
CuttingEdges(g, start, end) ==
    {e \in DOMAIN g.edges :
        /\ ~g.edges[e].blocked
        /\ ShortestHops(Graph_block_edge(g, e), start)[end] = INF}

\* C15: find_critical_edges(start, end) lists, each once, exactly the
\* unblocked edges whose blocking alone makes end unreachable from start,
\* and nothing when end cannot be reached in the first place; so a single
\* bridge between the two sides is returned alone.
C15_CriticalEdgesExact ==
    result.op = "find_critical_edges"
    => IF ShortestHops(graph, result.start)[result.end] = INF
       THEN result.critical = <<>>
       ELSE /\ SeqRange(result.critical)
                  = CuttingEdges(graph, result.start, result.end)
            /\ Len(result.critical) = Cardinality(SeqRange(result.critical))

\* C15 witness: of three or more open edges exactly one is a bridge
\* between start and end, and it is returned alone.
C15_Witness ==
    /\ result.op = "find_critical_edges"
    /\ Len(result.critical) = 1
    /\ Cardinality({e \in DOMAIN graph.edges : ~graph.edges[e].blocked}) >= 3
    /\ \E e \in DOMAIN graph.edges : graph.edges[e].blocked

\* C16: no pathfinding query changes the graph: across a call of bfs,
\* dijkstra, a_star, find_reachable_vertices, find_critical_edges (and the
\* neighbour choice built on dijkstra) the vertices, the edges with their
\* blocked flags, types and weights, and the adjacency lists are the same.
C16_QueriesLeaveGraphUnchanged == [][graph' = graph]_vars

\* C16 witness: find_critical_edges has returned after blocking and
\* restoring several open edges, one of them critical.
C16_Witness ==
    /\ result.op = "find_critical_edges"
    /\ result.critical # <<>>
    /\ Cardinality({e \in DOMAIN graph.edges : ~graph.edges[e].blocked})
          > Len(result.critical)

\* the vertices dijkstra(start) cannot reach over unblocked edges
UnreachableFrom(g, start) ==
    {v \in DOMAIN g.vertices : ShortestHops(g, start)[v] = INF}

\* C18 as stated: a vertex dijkstra(start) cannot reach has no entry in
\* the distance map returned.
C18_UnreachableAbsent ==
    (result.op = "dijkstra" /\ result.end = <<>>)
    => \A v \in UnreachableFrom(graph, result.start) :
          v \notin DOMAIN result.distances

\* C18 amended: a vertex dijkstra(start) cannot reach has an entry in the
\* distance map returned, and the entry is float('inf').
C18_UnreachableMappedToInf ==
    (result.op = "dijkstra" /\ result.end = <<>>)
    => \A v \in UnreachableFrom(graph, result.start) :
          /\ v \in DOMAIN result.distances
          /\ result.distances[v] = INF

\* C18 witness: dijkstra(start) has run where a blocked edge cuts a vertex
\* off.
C18_Witness ==
    /\ result.op = "dijkstra"
    /\ result.end = <<>>
    /\ \E v \in UnreachableFrom(graph, result.start) :
          \E e \in DOMAIN graph.edges :
             /\ graph.edges[e].blocked
             /\ v \in {graph.edges[e].v1_id, graph.edges[e].v2_id}

\* the graph with every edge at vertex v blocked
WithoutVertex(g, v) ==
    [g EXCEPT !.edges = [e \in DOMAIN g.edges |->
        IF v \in {g.edges[e].v1_id, g.edges[e].v2_id}
        THEN [g.edges[e] EXCEPT !.blocked = TRUE]
        ELSE g.edges[e]]]

\* C19: dijkstra(start, end) for a reachable end stops when end is popped
\* and not before: distances[end] is the least total weight of an unblocked
\* path, the predecessors lead from end back to start, and no vertex that
\* can only be reached through end has been given a distance.
C19_EarlyExitAtEnd ==
    (/\ result.op = "dijkstra"
     /\ result.end # <<>>
     /\ ShortestHops(graph, result.start)[result.end[1]] # INF)
    => LET end == result.end[1]
           walk == ReconstructPath(result.predecessors, result.start, end)
       IN  /\ result.distances[end] = ShortestWeights(graph, result.start)[end]
           /\ walk.returns
           /\ walk.path # <<>>
           /\ Head(walk.path) = result.start
           /\ walk.path[Len(walk.path)] = end
           /\ \A v \in UnreachableFrom(WithoutVertex(graph, end), result.start)
                       \ {end} :
                 result.distances[v] = INF

\* C19 witness: the end was first seen over a heavier edge than its
\* shortest path, and a vertex behind it was left unvisited.
C19_Witness ==
    /\ result.op = "dijkstra"
    /\ result.end # <<>>
    /\ result.start # result.end[1]
    /\ result.distances[result.end[1]] # INF
    /\ result.predecessors[result.end[1]] # result.start
    /\ \E e \in DOMAIN graph.edges :
          /\ ~graph.edges[e].blocked
          /\ {graph.edges[e].v1_id, graph.edges[e].v2_id}
                = {result.start, result.end[1]}
    /\ \E v \in DOMAIN graph.vertices :
          /\ result.distances[v] = INF
          /\ ShortestHops(graph, result.start)[v] # INF

\* every edge of the graph has weight 1
UnitWeights(g) == \A e \in DOMAIN g.edges : g.edges[e].weight = 1

\* C20: on a graph whose edges all weigh 1, dijkstra(start) gives every
\* vertex that can be reached the distance bfs(start) gives it, whatever
\* edges are blocked.
C20_DijkstraEqualsBfsOnUnitWeights ==
    (result.op = "dijkstra" /\ result.end = <<>> /\ UnitWeights(graph))
    => LET hops == Bfs(graph, result.start, <<>>)
       IN  \A v \in DOMAIN graph.vertices :
              ShortestHops(graph, result.start)[v] # INF
              => /\ v \in DOMAIN hops
                 /\ v \in DOMAIN result.distances
                 /\ result.distances[v] = hops[v]

\* C20 witness: dijkstra(start) has run on a unit-weight graph with a
\* blocked edge and a vertex three edges away.
C20_Witness ==
    /\ result.op = "dijkstra"
    /\ result.end = <<>>
    /\ UnitWeights(graph)
    /\ \E e \in DOMAIN graph.edges : graph.edges[e].blocked
    /\ \E v \in DOMAIN result.distances : result.distances[v] = 3

(***************************************************************************)
(* SpecPath: reconstruct_path applied to a predecessor dict drawn among    *)
(* all the dicts over the vertex ids 0..MaxPathVertex (a key may be        *)
(* missing, and the entries may form a cycle), for every start and end.    *)
(***************************************************************************)
MaxPathVertex == 3

PathVertexIds == 0..MaxPathVertex

PredecessorMaps == UNION {[D -> PathVertexIds] : D \in SUBSET PathVertexIds}

InitPath ==
    /\ IdleEdgeVars
    /\ IdleGraphVars
    /\ IdleCombatVars

RunReconstructPath ==
    /\ result = NoResult
    /\ \E predecessors \in PredecessorMaps,
          start_id \in PathVertexIds, end_id \in PathVertexIds :
          LET r == ReconstructPath(predecessors, start_id, end_id)
          IN  result' = [op |-> "reconstruct_path",
                         predecessors |-> predecessors,
                         start |-> start_id, end |-> end_id,
                         returns |-> r.returns, path |-> r.path]
    /\ UNCHANGED <<edge, graph, combatVars>>

NextPath == RunReconstructPath

SpecPath == InitPath /\ [][NextPath]_vars

\* where following the entries back from v ends within n steps: at start,
\* at a vertex without an entry ("broken"), or nowhere ("cycle")
RECURSIVE WalkBackEnds(_, _, _, _)
WalkBackEnds(predecessors, start, v, n) ==
    IF v = start THEN "start"
    ELSE IF v \notin DOMAIN predecessors THEN "broken"
    ELSE IF n = 0 THEN "cycle"
    ELSE WalkBackEnds(predecessors, start, predecessors[v], n - 1)

\* path runs from start to end, each vertex the predecessor of the next
IsPredecessorChain(predecessors, start, end, path) ==
    /\ path # <<>>
    /\ path[1] = start
    /\ path[Len(path)] = end
    /\ \A i \in 1..(Len(path) - 1) :
          /\ path[i + 1] \in DOMAIN predecessors
          /\ predecessors[path[i + 1]] = path[i]

MaxInstances == 2

\* Monster objects ever created
MaxMonsters == 2

PlayerIds == {0, 1}

\* the vertex with a tracked monster, and one without
TrackedVertex == 2

CombatVertices == {2, 3}

\* delta arguments: a frame of half a second
Deltas == {500}

World == [players |-> players, monsters |-> monsters,
          instances |-> instances, grants |-> grants]

InitCombat ==
    /\ IdleEdgeVars
    /\ IdleGraphVars
    /\ players = [id \in PlayerIds |->
                    IF id = 0
                    THEN [Player_init(id) EXCEPT !.hp = 2, !.experience = 90]
                    ELSE Player_init(id)]
    /\ monsters = <<[Monster_init("GOBLIN", 2) EXCEPT !.hp = 6]>>
    /\ active_monsters = [v \in {TrackedVertex} |->
                            [MonsterState_init(1, v, <<v, 0>>)
                                EXCEPT !.state = "patrol"]]
    /\ gs_monsters = <<>>
    /\ instances = <<>>
    /\ active_instances = <<>>
    /\ grants = <<>>
    /\ logs = <<>>

\* inst.tick(delta) on an encounter the manager holds
Tick(i, delta) ==
    /\ \E k \in DOMAIN active_instances : active_instances[k] = i
    /\ \E w \in {TickCombatInstance_tick(World, i, delta, pr, mr) :
                    pr \in PlayerRolls(World, i, delta),
                    mr \in MonsterRolls(World, i, delta)} :
              /\ players' = w.players
              /\ monsters' = w.monsters
              /\ instances' = w.instances
    /\ UNCHANGED <<active_instances, active_monsters, gs_monsters, grants>>
    /\ UNCHANGED <<edgeVars, graphVars, logs>>

\* combat_manager.update(delta)
Update(delta) ==
    /\ \E o \in CombatManager_update(World, active_instances, gs_monsters, delta) :
          /\ players' = o.w.players
          /\ monsters' = o.w.monsters
          /\ instances' = o.w.instances
          /\ grants' = o.w.grants
          /\ active_instances' = o.active
          /\ gs_monsters' = o.listed
    /\ UNCHANGED active_monsters
    /\ UNCHANGED <<edgeVars, graphVars, logs>>

\* what a call that starts an encounter leaves behind
Started(o) ==
    /\ Len(o.w.instances) <= MaxInstances
    /\ Len(o.w.monsters) <= MaxMonsters
    /\ monsters' = o.w.monsters
    /\ instances' = o.w.instances
    /\ grants' = o.w.grants
    /\ active_instances' = o.active
    /\ UNCHANGED <<players, active_monsters, gs_monsters>>
    /\ UNCHANGED <<edgeVars, graphVars, logs>>

\* combat_manager.start_combat(player, monster)
ManagerStartCombat(p, m) ==
    Started(CombatManager_start_combat(World, active_instances, p, m))

\* game_state.start_combat(player, monster)
StartCombat(p, m) ==
    Started(GameState_start_combat(World, active_instances, p, m))

\* game_state.trigger_combat(player, vertex)
TriggerCombat(p, v) ==
    Started(GameState_trigger_combat(World, active_instances,
                                     active_monsters, p, v))

\* game_state.get_monster_at(gx, gy) on the obstacle's cell
GetMonsterAt ==
    LET o == GameState_get_monster_at(World, gs_monsters)
    IN  /\ Len(o.monsters) <= MaxMonsters
        /\ monsters' = o.monsters
        /\ gs_monsters' = o.listed
        /\ UNCHANGED <<players, instances, active_instances,
                       active_monsters, grants>>
        /\ UNCHANGED <<edgeVars, graphVars, logs>>

NextCombat ==
    \/ \E i \in DOMAIN instances, delta \in Deltas : Tick(i, delta)
    \/ \E delta \in Deltas : Update(delta)
    \/ \E p \in PlayerIds, m \in DOMAIN monsters : ManagerStartCombat(p, m)
    \/ \E p \in PlayerIds, m \in DOMAIN monsters : StartCombat(p, m)
    \/ \E p \in PlayerIds, v \in CombatVertices : TriggerCombat(p, v)
    \/ GetMonsterAt

SpecCombat == InitCombat /\ [][NextCombat]_vars

\* the objects after the step
WorldNext == [players |-> players', monsters |-> monsters',
              instances |-> instances', grants |-> grants']

\* the step is a tick of encounter i that resolved queued attacks
TickStep(i) ==
    /\ ~instances[i].ended
    /\ instances'[i].turns = instances[i].turns + 1
    /\ instances'[i].tick_log # <<>>

\* the raw damage of the attack a side queued in the tick that wrote log
AttackOf(log, who) ==
    {log[k].amount : k \in {j \in DOMAIN log : /\ log[j].kind = "attack"
                                                /\ log[j].who = who}}

\* C1: when player and monster are both ready in a tick and each one's
\* queued damage brings the other to 0 hp, both end the tick at 0 hp, the
\* encounter is ended, and its result names no winner (player_won false).
C1_MutualKillHasNoWinner ==
    [][\A i \in DOMAIN instances :
        \A a \in AttackOf(instances'[i].tick_log, "player"),
           b \in AttackOf(instances'[i].tick_log, "monster") :
            LET p == instances[i].player
                m == instances[i].monster
            IN  (/\ TickStep(i)
                 /\ Monster_take_damage(monsters[m], a).hp = 0
                 /\ Player_take_damage(players[p], b).player.hp = 0)
                => /\ players'[p].hp = 0
                   /\ monsters'[m].hp = 0
                   /\ instances'[i].ended
                   /\ ~TickCombatInstance_get_result(WorldNext, i, 0).player_won
      ]_vars

\* C2: in a tick where both sides are ready, both attacks are queued before
\* any hit points change and both are then applied to the hit points the
\* tick started with: each side ends with exactly what its opponent's
\* queued damage leaves of them, whichever side is looked at first and
\* whether or not a side is killed by the other's attack.
C2_AttacksAppliedSimultaneously ==
    [][\A i \in DOMAIN instances :
        \A a \in AttackOf(instances'[i].tick_log, "player"),
           b \in AttackOf(instances'[i].tick_log, "monster") :
            LET p == instances[i].player
                m == instances[i].monster
            IN  TickStep(i)
                => /\ players'[p].hp = Player_take_damage(players[p], b).player.hp
                   /\ monsters'[m].hp = Monster_take_damage(monsters[m], a).hp
      ]_vars

\* a tick in which both attacked, the monster was killed and the player
\* still took the monster's hit
C2_Witness ==
    \E i \in DOMAIN instances :
        LET log == instances[i].tick_log
        IN  /\ AttackOf(log, "player") # {}
            /\ AttackOf(log, "monster") # {}
            /\ monsters[instances[i].monster].hp = 0
            /\ \E k \in DOMAIN log : /\ log[k].kind = "received"
                                     /\ log[k].who = "player"
                                     /\ log[k].amount >= 1

\* C3: whatever calls of trigger_combat, start_combat and update have been
\* made, a player has at most one encounter that has not ended in
\* active_instances.
C3_OneActiveEncounterPerPlayer ==
    \A p \in PlayerIds :
        Cardinality({k \in DOMAIN active_instances :
                        /\ instances[active_instances[k]].player = p
                        /\ ~instances[active_instances[k]].ended}) <= 1

\* C4: the reward of a won encounter - experience, gold and items - has
\* been given exactly once as soon as an update call has observed the
\* encounter ended, and not at all before that.
C4_RewardGivenExactlyOnce ==
    \A i \in DOMAIN instances :
        grants[i] = IF instances[i].rewards_shown
                    THEN [xp |-> 1, gold |-> 1, items |-> 1]
                    ELSE NoGrants

\* the encounters that have given experience or gold for monster m
Rewarded(m) ==
    {i \in DOMAIN instances :
        instances[i].monster = m /\ (grants[i].xp > 0 \/ grants[i].gold > 0)}

\* C40: the reward for a monster is given at most once in total: at most
\* one encounter has given experience or gold for it, and that encounter
\* has given each of them once
C40_RewardOncePerMonster ==
    \A m \in DOMAIN monsters :
        /\ Cardinality(Rewarded(m)) <= 1
        /\ \A i \in Rewarded(m) : grants[i].xp <= 1 /\ grants[i].gold <= 1

(***************************************************************************)
(* SpecMonster: the monster system of a game on Graph.sample_graph() with  *)
(* two players and a goblin flagged at vertex 2, after spawn_from_graph    *)
(* has run once (as the game setup runs it), under MonsterSystem.update,   *)
(* handle_player_enter_vertex and the combat manager's update.             *)
(***************************************************************************)
\* encounter messages kept of gs.logs
MaxLogs == 2

SampleVertices ==
    <<<<100, 300>>, <<300, 150>>, <<300, 450>>, <<500, 100>>,
      <<500, 300>>, <<500, 500>>, <<700, 300>>>>

SampleEdges ==
    <<<<0, 1, 3, "NORMAL_TUNNEL">>, <<0, 2, 4, "NORMAL_TUNNEL">>,
      <<1, 3, 2, "UNSTABLE_TUNNEL">>, <<1, 4, 5, "NORMAL_TUNNEL">>,
      <<2, 4, 3, "NORMAL_TUNNEL">>, <<2, 5, 4, "UNDERWATER_PASSAGE">>,
      <<3, 6, 6, "SECRET_PASSAGE">>, <<4, 6, 2, "NORMAL_TUNNEL">>,
      <<5, 6, 5, "UNSTABLE_TUNNEL">>, <<1, 2, 2, "NARROW_PASSAGE">>,
      <<3, 4, 3, "NORMAL_TUNNEL">>, <<4, 5, 2, "NORMAL_TUNNEL">>>>

RECURSIVE SampleAddVertices(_, _)
SampleAddVertices(g, i) ==
    IF i > Len(SampleVertices) THEN g
    ELSE SampleAddVertices(
            Graph_add_vertex(g, SampleVertices[i][1], SampleVertices[i][2]),
            i + 1)

RECURSIVE SampleAddEdges(_, _)
SampleAddEdges(g, i) ==
    IF i > Len(SampleEdges) THEN g
    ELSE LET e == SampleEdges[i]
         IN  SampleAddEdges(Graph_add_edge(g, e[1], e[2], e[3], e[4]), i + 1)

\* Graph.sample_graph()
Graph_sample_graph ==
    [SampleAddEdges(SampleAddVertices(Graph_init, 1), 1)
        EXCEPT !.vertices[3].hazards = <<"DARKNESS">>]

\* the vertices a player enters: the goblin's, and one without a monster
EnteredVertices == {TrackedVertex, 3}

\* the game record the monster system works on
Game == [w |-> World, active |-> active_instances, graph |-> graph,
         active_monsters |-> active_monsters, logs |-> logs]

\* the game set up: sample graph, player 0 at vertex 0 and player 1 at
\* vertex 1, vertex 2 flagged
\* has_monster with monster_type "goblin", spawn_from_graph called
GameSetUp ==
    MonsterSystem_spawn_from_graph(
        [w |-> [players |-> [id \in PlayerIds |-> Player_new(id, id)],
                monsters |-> <<>>, instances |-> <<>>, grants |-> <<>>],
         active |-> <<>>,
         graph |-> [Graph_sample_graph EXCEPT
                      !.vertices[TrackedVertex].has_monster = TRUE,
                      !.vertices[TrackedVertex].monster_type = <<"goblin">>],
         active_monsters |-> <<>>,
         logs |-> <<>>])

InitMonster ==
    /\ IdleEdgeVars
    /\ result = NoResult
    /\ graph = GameSetUp.graph
    /\ players = GameSetUp.w.players
    /\ monsters = GameSetUp.w.monsters
    /\ instances = GameSetUp.w.instances
    /\ grants = GameSetUp.w.grants
    /\ active_instances = GameSetUp.active
    /\ active_monsters = GameSetUp.active_monsters
    /\ logs = GameSetUp.logs
    /\ gs_monsters = <<>>

\* what a call of the monster system leaves behind
MonsterSystemDid(gs) ==
    /\ Len(gs.w.instances) <= MaxInstances
    /\ Len(gs.w.monsters) <= MaxMonsters
    /\ Len(gs.logs) <= MaxLogs
    /\ players' = gs.w.players
    /\ monsters' = gs.w.monsters
    /\ instances' = gs.w.instances
    /\ grants' = gs.w.grants
    /\ active_instances' = gs.active
    /\ graph' = gs.graph
    /\ active_monsters' = gs.active_monsters
    /\ logs' = gs.logs
    /\ UNCHANGED <<edge, result, gs_monsters>>

\* monster_system.update(delta)
MonsterUpdate(delta) == MonsterSystemDid(MonsterSystem_update(Game, delta))

\* monster_system.handle_player_enter_vertex(player, vertex)
HandlePlayerEnterVertex(p, v) ==
    MonsterSystemDid(MonsterSystem_handle_player_enter_vertex(Game, p, v))

NextMonster ==
    \/ \E delta \in Deltas : MonsterUpdate(delta)
    \/ \E p \in PlayerIds, v \in EnteredVertices : HandlePlayerEnterVertex(p, v)
    \/ \E delta \in Deltas : Update(delta)

SpecMonster == InitMonster /\ [][NextMonster]_vars

\* the steps of the behaviour chain idle -> patrol -> chase -> engaging
ChainSteps ==
    {<<"idle", "patrol">>, <<"patrol", "chase">>, <<"chase", "engaging">>}

\* C12: in every step a monster's behaviour state stays as it is or moves
\* one step along idle -> patrol -> chase -> engaging; it goes (back) to
\* idle only when the monster is dead (its MonsterState is then dropped).
C12_BehaviourChainOnly ==
    [][\A v \in DOMAIN active_monsters :
          LET ms == active_monsters[v]
              old == ms.state
              new == IF v \in DOMAIN active_monsters'
                     THEN active_monsters'[v].state
                     ELSE "idle"
          IN  \/ new = old
              \/ <<old, new>> \in ChainSteps
              \/ new = "idle" /\ ~Monster_is_alive(monsters'[ms.monster])
      ]_vars

\* the encounter requests the monster system has issued at a vertex
RequestsAt(v) ==
    {k \in DOMAIN logs : logs[k].vertex = v /\ logs[k].kind = "encounter"}

\* C13: a live monster that has entered engaging has had one encounter
\* request issued for it: entering its vertex again issues no second one.
C13_EngageRequestedOnce ==
    \A v \in DOMAIN active_monsters :
        Monster_is_alive(monsters[active_monsters[v].monster])
        => Cardinality(RequestsAt(v)) <= 1

\* the player has an encounter in active_instances that has not ended
HasOpenEncounter(p) ==
    \E k \in DOMAIN active_instances :
        /\ instances[active_instances[k]].player = p
        /\ ~instances[active_instances[k]].ended

\* C11: a trigger_combat call for a player who has a non-ended encounter
\* in active_instances creates no encounter and no monster and leaves the
\* list of active encounters, every encounter (timers, turn counter, log)
\* and every participant (hp, stamina) as they were.
C11_TriggerCombatGuardChangesNothing ==
    [][\A p \in PlayerIds, v \in CombatVertices :
          (HasOpenEncounter(p) /\ TriggerCombat(p, v))
          => UNCHANGED combatVars
      ]_vars

\* C11 witness: a player is in the middle of an encounter (turns fought,
\* not ended) at the moment trigger_combat can be called for them again.
C11_Witness ==
    \E p \in PlayerIds :
        /\ HasOpenEncounter(p)
        /\ \E i \in DOMAIN instances :
              /\ instances[i].player = p
              /\ ~instances[i].ended
              /\ instances[i].turns >= 1
              /\ players[p].hp < players[p].max_hp

(***************************************************************************)
(* SpecWeight: the weights of the edges of a graph of two vertices, under  *)
(* add_edge called with any requested integer weight and under rope cards  *)
(* played by a player standing at vertex 0.                                *)
(***************************************************************************)
\* add_edge is called while fewer than MaxWeightEdges edge ids were handed out
MaxWeightEdges == 2

RequestedWeights == -1..4
CordaValues == 1..3
CardLevels == 1..3
CardPlayer == 1

InitWeight ==
    /\ IdleEdgeVars
    /\ result = NoResult
    /\ graph = Graph_add_vertex(Graph_add_vertex(Graph_init, 0, 0), 10, 0)
    /\ players = [id \in {CardPlayer} |-> Player_new(id, 0)]
    /\ monsters = <<>>
    /\ instances = <<>>
    /\ active_instances = <<>>
    /\ active_monsters = <<>>
    /\ gs_monsters = <<>>
    /\ grants = <<>>
    /\ logs = <<>>

AddEdgeRequested ==
    /\ graph.next_e_id < MaxWeightEdges
    /\ \E w \in RequestedWeights :
          graph' = Graph_add_edge(graph, 0, 1, w, "NORMAL_TUNNEL")
    /\ UNCHANGED <<edge, result, combatVars>>

\* card.apply(player, game_state, target_edge_id) of a rope card
ApplyCorda ==
    /\ \E value \in CordaValues, level \in CardLevels,
          target \in {<<>>} \cup {<<e>> : e \in 0..MaxWeightEdges} :
          LET r == Card_apply(Card_init_corda(value, level),
                              players[CardPlayer], graph, target)
          IN  /\ graph' = r.graph
              /\ players' = [players EXCEPT ![CardPlayer] = r.player]
              /\ result' = [op |-> "card.apply", success |-> r.success]
    /\ UNCHANGED <<edge, monsters, instances, active_instances,
                   active_monsters, gs_monsters, grants, logs>>

NextWeight == AddEdgeRequested \/ ApplyCorda

SpecWeight == InitWeight /\ [][NextWeight]_vars

\* C21: every edge of the graph has a weight of at least 1, after add_edge
\* with any requested integer weight and after any rope card
C21_WeightAtLeastOne ==
    \A e \in DOMAIN graph.edges : graph.edges[e].weight >= 1

\* C22: after every CombatManager.update call, no ended encounter is left
\* in active_instances, whether it ended by the player's death, by the
\* monster's death or by the turn budget
C22_EndedPrunedBySameUpdate ==
    [][(\E delta \in Deltas : Update(delta))
        => \A k \in DOMAIN active_instances' :
              ~instances'[active_instances'[k]].ended
      ]_vars

\* C23: a tick of a non-ended encounter one of whose participants is
\* already dead queues no attack (no hit points or stamina change, the
\* turn counter stays) and ends the encounter
C23_DeadParticipantQueuesNoAttack ==
    [][\A i \in DOMAIN instances :
        LET p == instances[i].player
            m == instances[i].monster
        IN  (/\ \E delta \in Deltas : Tick(i, delta)
             /\ ~instances[i].ended
             /\ (~players[p].is_alive \/ ~Monster_is_alive(monsters[m])))
            => /\ AttackOf(instances'[i].tick_log, "player") = {}
               /\ AttackOf(instances'[i].tick_log, "monster") = {}
               /\ players'[p].hp = players[p].hp
               /\ monsters'[m].hp = monsters[m].hp
               /\ players'[p].stamina = players[p].stamina
               /\ instances'[i].turns = instances[i].turns
               /\ instances'[i].ended
      ]_vars

\* C38: after any sequence of ticks, reward grants (level-ups included) and
\* heals, a player's is_alive flag is true exactly when its hp is greater
\* than 0, and hp is within 0..max_hp
C38_AliveIffHpPositive ==
    \A id \in DOMAIN players :
        /\ players[id].is_alive <=> players[id].hp > 0
        /\ players[id].hp >= 0
        /\ players[id].hp <= players[id].max_hp

(***************************************************************************)
(* SpecBudget: one encounter from its start to its turn budget, under tick *)
(* and the manager's update.  A player of level 4 (130 hp, defense 8) who  *)
(* has spent stamina on movement meets a goblin of level 1: every hit of   *)
(* the goblin takes 1 hp, and a player left with less than 5 stamina       *)
(* cannot pay for an attack, so that the encounter lasts.                  *)
(***************************************************************************)
StaminaLeft == {2, 12}
BudgetPlayer == 0

\* the experience that takes a new player to level 4: 100 + 150 + 225
ExperienceToLevelFour == 475

\* the encounter started by start_combat(player, monster)
BudgetWorld(stamina) ==
    LET p0 == Player_gain_experience(Player_init(BudgetPlayer),
                                     ExperienceToLevelFour)
        p1 == Player_consume_stamina(p0, p0.stamina - stamina)
        w0 == [players |-> [id \in {BudgetPlayer} |-> p1],
               monsters |-> <<Monster_init("GOBLIN", 1)>>,
               instances |-> <<>>, grants |-> <<>>]
    IN  CombatManager_start_combat(w0, <<>>, BudgetPlayer, 1)

InitBudget ==
    /\ IdleEdgeVars
    /\ IdleGraphVars
    /\ \E stamina \in StaminaLeft :
          LET o == BudgetWorld(stamina)
          IN  /\ players = o.w.players
              /\ monsters = o.w.monsters
              /\ instances = o.w.instances
              /\ grants = o.w.grants
              /\ active_instances = o.active
    /\ active_monsters = <<>>
    /\ gs_monsters = <<>>
    /\ logs = <<>>

NextBudget ==
    \/ \E i \in DOMAIN instances, delta \in Deltas : Tick(i, delta)
    \/ \E delta \in Deltas : Update(delta)

SpecBudget == InitBudget /\ [][NextBudget]_vars

\* C24: an encounter whose turn counter reaches max_turns in a step that
\* leaves both participants alive is ended by that step as a draw: its
\* result reports neither player_won nor player_died, nothing is granted
\* (experience, gold and items stay), and when the step is the manager's
\* update the update completes and drops the encounter
C24_BudgetEndsInDraw ==
    [][\A i \in DOMAIN instances :
        LET p == instances[i].player
            m == instances[i].monster
            res == TickCombatInstance_get_result(WorldNext, i, 0)
        IN  (/\ ~instances[i].ended
             /\ instances'[i].turns >= instances'[i].max_turns
             /\ players'[p].is_alive
             /\ Monster_is_alive(monsters'[m]))
            => /\ instances'[i].ended
               /\ ~res.player_won
               /\ ~res.player_died
               /\ grants'[i] = NoGrants
               /\ players'[p].experience = players[p].experience
               /\ players'[p].gold = players[p].gold
               /\ players'[p].inventory = players[p].inventory
               /\ (\E delta \in Deltas : Update(delta))
                     => \A k \in DOMAIN active_instances' :
                           active_instances'[k] # i
      ]_vars

\* an encounter that ended at the budget with both alive and was dropped
\* by the update that ended it, nothing granted
C24_Witness ==
    \E i \in DOMAIN instances :
        /\ instances[i].ended
        /\ instances[i].turns = instances[i].max_turns
        /\ instances[i].tick_log = <<>>
        /\ players[instances[i].player].is_alive
        /\ Monster_is_alive(monsters[instances[i].monster])
        /\ active_instances = <<>>
        /\ grants[i] = NoGrants

\* C25: a MonsterSystem.update takes a live monster that is idle or on
\* patrol and has a live player within its vision range (dijkstra distance
\* at most 3) to chase, with a player in range as its aggro target
C25_DetectionStartsChase ==
    [][\A v \in DOMAIN active_monsters :
        (/\ \E delta \in Deltas : MonsterUpdate(delta)
         /\ Monster_is_alive(monsters[active_monsters[v].monster])
         /\ active_monsters[v].state \in {"idle", "patrol"}
         /\ PlayersInRange(Game, active_monsters[v].vertex_id) # {})
        => /\ v \in DOMAIN active_monsters'
           /\ active_monsters'[v].state = "chase"
           /\ active_monsters'[v].aggro_target \in
                 {<<id>> : id \in PlayersInRange(Game, active_monsters[v].vertex_id)}
      ]_vars

\* C26: a MonsterSystem.update that finds a tracked monster with 0 hp
\* leaves its MonsterState idle with no aggro target, takes it out of
\* active_monsters and clears has_monster of its vertex; and no step puts a
\* monster on a vertex that has none (no later update re-creates it)
C26_DeadMonsterCleanedUp ==
    [][/\ \A v \in DOMAIN active_monsters :
            LET ms == active_monsters[v]
            IN  (/\ \E delta \in Deltas : MonsterUpdate(delta)
                 /\ ~Monster_is_alive(monsters[ms.monster]))
                => /\ DeadMonsterState(ms).state = "idle"
                   /\ DeadMonsterState(ms).aggro_target = <<>>
                   /\ v \notin DOMAIN active_monsters'
                   /\ ~graph'.vertices[ms.vertex_id].has_monster
       /\ \A v \in DOMAIN graph.vertices :
            v \notin DOMAIN active_monsters
                => /\ v \notin DOMAIN active_monsters'
                   /\ graph'.vertices[v].has_monster = graph.vertices[v].has_monster
      ]_vars

\* the goblin was killed and an update has cleaned up after it
C26_Witness ==
    /\ active_monsters = <<>>
    /\ ~graph.vertices[TrackedVertex].has_monster
    /\ \E m \in DOMAIN monsters : ~Monster_is_alive(monsters[m])

\* C34: no step takes a monster from engaging to chase: a monster that is
\* engaging is, after any step, still engaging, idle, or no longer tracked,
\* so that between an engaging state and a later chase state it is idle
C34_NoChaseStraightFromEngage ==
    [][\A v \in DOMAIN active_monsters :
          (active_monsters[v].state = "engaging"
             /\ v \in DOMAIN active_monsters')
          => active_monsters'[v].state \in {"engaging", "idle"}]_vars

\* a live monster that a player has met, with the encounter on record, has
\* left the engaging state through an update
C34_Witness ==
    \E v \in DOMAIN active_monsters :
        /\ active_monsters[v].state = "idle"
        /\ Monster_is_alive(monsters[active_monsters[v].monster])
        /\ \E i \in DOMAIN instances :
               instances[i].monster = active_monsters[v].monster

\* the monsters tracked are those of the flagged vertices, each under the
\* key of its vertex, and spawn_from_graph would change nothing
TrackedMatchesFlags(gs) ==
    /\ \A v \in DOMAIN gs.graph.vertices :
          v \in DOMAIN gs.active_monsters <=> gs.graph.vertices[v].has_monster
    /\ DOMAIN gs.active_monsters \subseteq DOMAIN gs.graph.vertices
    /\ \A v \in DOMAIN gs.active_monsters : gs.active_monsters[v].vertex_id = v
    /\ MonsterSystem_spawn_from_graph(gs) = gs

\* C39: in every state of the game, the one after GameSetUp's
\* spawn_from_graph and those at the end of every MonsterSystem.update
\* (which begins with spawn_from_graph) included, a vertex id is a key of
\* active_monsters iff the vertex has its has_monster flag, every tracked
\* state's vertex_id is its key, and a further spawn_from_graph changes
\* nothing
C39_TrackedMatchesFlags == TrackedMatchesFlags(Game)

\* an update has dropped the goblin that died and cleared its vertex
\* while the encounter that killed it is still on record
C39_Witness ==
    /\ active_monsters = <<>>
    /\ ~graph.vertices[TrackedVertex].has_monster
    /\ \E i \in DOMAIN instances :
          /\ instances[i].ended
          /\ ~Monster_is_alive(monsters[instances[i].monster])

(***************************************************************************)
(* SpecPatrol: one MonsterState with a list of two or more distinct        *)
(* waypoints, its cursor at 0 moving forward as MonsterState.__init__      *)
(* leaves it, under successive _next_patrol_point calls.  result counts    *)
(* the calls and keeps the point the last call returned.                   *)
(***************************************************************************)
\* waypoint lists have at most MaxPatrolPoints points
MaxPatrolPoints == 4
\* _next_patrol_point is called at most MaxPatrolCalls times
MaxPatrolCalls == 13

PatrolVertexIds == 0..(MaxPatrolPoints - 1)

PatrolLists ==
    UNION {{l \in [1..n -> PatrolVertexIds] :
               \A i, j \in 1..n : i # j => l[i] # l[j]} :
           n \in 2..MaxPatrolPoints}

\* the one MonsterState, kept in active_monsters at its first waypoint
Patroller == active_monsters[CHOOSE v \in DOMAIN active_monsters : TRUE]

InitPatrol ==
    /\ IdleEdgeVars
    /\ graph = Graph_init
    /\ result = [op |-> "next_patrol_point", calls |-> 0, point |-> <<>>]
    /\ \E l \in PatrolLists :
          active_monsters = [v \in {l[1]} |-> MonsterState_init(1, v, l)]
    /\ players = <<>>
    /\ monsters = <<Monster_init("GOBLIN", 1)>>
    /\ instances = <<>>
    /\ active_instances = <<>>
    /\ gs_monsters = <<>>
    /\ grants = <<>>
    /\ logs = <<>>

NextPatrolPoint ==
    /\ result.calls < MaxPatrolCalls
    /\ LET r == MonsterSystem_next_patrol_point(Patroller)
       IN  /\ active_monsters' = [v \in DOMAIN active_monsters |-> r.ms]
           /\ result' = [result EXCEPT !.calls = @ + 1, !.point = <<r.point>>]
    /\ UNCHANGED <<edge, graph, players, monsters, instances,
                   active_instances, gs_monsters, grants, logs>>

NextPatrol == NextPatrolPoint

SpecPatrol == InitPatrol /\ [][NextPatrol]_vars

\* where the k-th call leaves a cursor that goes 1, .., n-1, n-2, .., 0, 1, ..
PingPong(k, n) ==
    LET r == k % (2 * (n - 1))
    IN  IF r <= n - 1 THEN r ELSE 2 * (n - 1) - r

\* C27: on a list of n >= 2 waypoints, after k calls of _next_patrol_point
\* from cursor 0 moving forward the cursor is at the k-th index of
\* 1, .., n-1, n-2, .., 0, 1, ..: it stays within 0..n-1, turns back
\* exactly at the two ends, and the call returned the waypoint under it
C27_PatrolPingPong ==
    LET ms == Patroller
        n == Len(ms.patrol_points)
    IN  /\ ms.patrol_index \in 0..(n - 1)
        /\ ms.patrol_index = PingPong(result.calls, n)
        /\ result.calls > 0
              => result.point = <<ms.patrol_points[ms.patrol_index + 1]>>

\* a list of three or more waypoints walked to its far end and back past
\* its first waypoint
C27_Witness ==
    /\ Len(Patroller.patrol_points) >= 3
    /\ result.calls = 2 * (Len(Patroller.patrol_points) - 1) + 1
    /\ Patroller.patrol_index = 1
    /\ Patroller.patrol_forward

(***************************************************************************)
(* SpecMove: GameState.move_player on the game of SpecMonster (the sample  *)
(* graph, player 0 at vertex 0, player 1 at vertex 1, a goblin at vertex   *)
(* 2, the treasure at vertex 6), the second player alive or fallen.  The   *)
(* last call, its return value and game_over/winner are kept in result.    *)
(***************************************************************************)
\* move_player calls in one behaviour
MaxMoves == 3

\* the ids a caller passes for the player: both players and an unknown id
MovePlayerIds == PlayerIds \cup {2}

\* the ids a caller passes for the edge: every edge and an unknown id
MoveEdgeIds == DOMAIN Graph_sample_graph.edges \cup {Len(SampleEdges)}

\* the edges blocked from outside: the tunnel between vertex 0 and vertex 1
BlockedTunnels == {0}

\* the players that are dead when the moves begin
FallenPlayers == {{}, {1}}

InitMove ==
    /\ IdleEdgeVars
    /\ result = [op |-> "none", calls |-> 0, player_id |-> 0, edge_id |-> 0,
                 returned |-> FALSE, game_over |-> FALSE, winner |-> <<>>,
                 current_player_index |-> 0]
    /\ graph = GameSetUp.graph
    /\ \E fallen \in FallenPlayers :
          players = [id \in PlayerIds |->
                        IF id \in fallen
                        THEN Player_take_damage(GameSetUp.w.players[id],
                                                GameSetUp.w.players[id].hp).player
                        ELSE GameSetUp.w.players[id]]
    /\ monsters = GameSetUp.w.monsters
    /\ instances = GameSetUp.w.instances
    /\ grants = GameSetUp.w.grants
    /\ active_instances = GameSetUp.active
    /\ active_monsters = GameSetUp.active_monsters
    /\ logs = GameSetUp.logs
    /\ gs_monsters = <<>>

\* gs.move_player(player_id, edge_id)
MovePlayer(player_id, edge_id) ==
    /\ result.calls < MaxMoves
    /\ \E o \in GameState_move_player(
                    Game, [game_over |-> result.game_over,
                           winner |-> result.winner], player_id, edge_id) :
          /\ Len(o.gs.w.instances) <= MaxInstances
          /\ Len(o.gs.w.monsters) <= MaxMonsters
          /\ Len(o.gs.logs) <= MaxLogs
          /\ players' = o.gs.w.players
          /\ monsters' = o.gs.w.monsters
          /\ instances' = o.gs.w.instances
          /\ grants' = o.gs.w.grants
          /\ active_instances' = o.gs.active
          /\ graph' = o.gs.graph
          /\ active_monsters' = o.gs.active_monsters
          /\ logs' = o.gs.logs
          /\ result' = [op |-> "move_player", calls |-> result.calls + 1,
                        player_id |-> player_id, edge_id |-> edge_id,
                        returned |-> o.returned,
                        game_over |-> o.over.game_over,
                        winner |-> o.over.winner,
                        current_player_index |-> result.current_player_index]
    /\ UNCHANGED <<edge, gs_monsters>>

\* graph.block_edge(edge_id)
BlockTunnel(edge_id) ==
    /\ ~graph.edges[edge_id].blocked
    /\ graph' = Graph_block_edge(graph, edge_id)
    /\ UNCHANGED <<edge, result, players, monsters, instances,
                   active_instances, active_monsters, gs_monsters, grants, logs>>

NextMove ==
    \/ \E p \in MovePlayerIds, e \in MoveEdgeIds : MovePlayer(p, e)
    \/ \E e \in BlockedTunnels : BlockTunnel(e)

SpecMove == InitMove /\ [][NextMove]_vars

\* the step is a move_player call
MoveCalled == result'.calls = result.calls + 1

\* C28: a move_player call along a blocked edge returns False and leaves
\* the player's current_vertex_id, total_cost and stamina as they were, and
\* every move_player call that returns False leaves the player's
\* current_vertex_id and total_cost as they were
C28_RefusedMoveKeepsPlace ==
    [][MoveCalled =>
          LET p == result'.player_id
              e == result'.edge_id
          IN  /\ (p \in DOMAIN players /\ e \in DOMAIN graph.edges
                  /\ graph.edges[e].blocked)
                 => /\ ~result'.returned
                    /\ players'[p].current_vertex_id = players[p].current_vertex_id
                    /\ players'[p].total_cost = players[p].total_cost
                    /\ players'[p].stamina = players[p].stamina
              /\ (~result'.returned /\ p \in DOMAIN players)
                 => /\ players'[p].current_vertex_id = players[p].current_vertex_id
                    /\ players'[p].total_cost = players[p].total_cost]_vars

\* a move along a blocked edge has been refused to a player who is alive,
\* stands at an end of the edge and has the stamina for it, after an
\* earlier move of that player
C28_Witness ==
    /\ result.op = "move_player"
    /\ ~result.returned
    /\ result.player_id \in DOMAIN players
    /\ result.edge_id \in DOMAIN graph.edges
    /\ LET p == players[result.player_id]
           e == graph.edges[result.edge_id]
       IN  /\ e.blocked
           /\ p.is_alive
           /\ p.current_vertex_id \in {e.v1_id, e.v2_id}
           /\ p.stamina >= 2 * e.weight
           /\ p.total_cost > 0

\* C29: a move_player call on an unblocked edge at the player's vertex, by
\* a player who can act and has stamina of at least twice the weight, that
\* does not collapse the edge returns True, puts the player on the other
\* end of the edge, adds the weight to total_cost and takes twice the
\* weight from stamina
C29_MoveSucceeds ==
    [][MoveCalled =>
          LET p == result'.player_id
              e == result'.edge_id
          IN  (/\ p \in DOMAIN players
               /\ e \in DOMAIN graph.edges
               /\ ~graph.edges[e].blocked
               /\ players[p].current_vertex_id \in
                     {graph.edges[e].v1_id, graph.edges[e].v2_id}
               /\ Player_can_act(players[p])
               /\ players[p].stamina >= 2 * graph.edges[e].weight
               /\ ~graph'.edges[e].blocked)
              => /\ result'.returned
                 /\ players'[p].current_vertex_id \in
                       {graph.edges[e].v1_id, graph.edges[e].v2_id}
                 /\ players'[p].current_vertex_id # players[p].current_vertex_id
                 /\ players'[p].total_cost =
                       players[p].total_cost + graph.edges[e].weight
                 /\ players'[p].stamina =
                       players[p].stamina - 2 * graph.edges[e].weight]_vars

\* a player has moved twice, the second time over the unstable tunnel
\* between vertex 1 and vertex 3 without a collapse
C29_Witness ==
    /\ result.op = "move_player"
    /\ result.returned
    /\ result.edge_id = 2
    /\ ~graph.edges[2].blocked
    /\ players[result.player_id].current_vertex_id = 3
    /\ players[result.player_id].total_cost = 5
    /\ players[result.player_id].stamina = 90

(***************************************************************************)
(* SpecDepth: bfs with a max_depth, as get_positions_within_range and      *)
(* get_positions_at_distance call it, on the drawn graphs of SpecAlgo.     *)
(***************************************************************************)
\* the largest max_depth passed; no vertex of a drawn graph is farther
MaxDepth == 3

\* bfs(graph, start, max_depth=d)
RunBfsDepth ==
    /\ result = NoResult
    /\ \E start \in AlgoVertexIds, d \in 0..MaxDepth :
          result' = [op |-> "bfs", start |-> start, max_depth |-> d,
                     distances |-> Bfs(graph, start, <<d>>)]
    /\ UNCHANGED <<graph, edge, combatVars>>

NextDepth == RunBfsDepth

SpecDepth == InitAlgo /\ [][NextDepth]_vars

\* C31: bfs(start, max_depth = d) returns the map whose keys are exactly the
\* vertices at a shortest distance of at most d from start over unblocked
\* edges, each mapped to that distance
C31_BfsWithinDepth ==
    result.op = "bfs"
    => LET sh == ShortestHops(graph, result.start)
       IN  /\ DOMAIN result.distances =
                 {v \in DOMAIN graph.vertices :
                     sh[v] # INF /\ sh[v] <= result.max_depth}
           /\ \A v \in DOMAIN result.distances :
                 result.distances[v] = sh[v]

\* bfs with max_depth 1 has left out a vertex two edges away and a vertex
\* that a blocked edge joins to the start
C31_Witness ==
    /\ result.op = "bfs"
    /\ result.max_depth = 1
    /\ \E v \in DOMAIN graph.vertices :
          ShortestHops(graph, result.start)[v] = 2
          /\ v \notin DOMAIN result.distances
    /\ \E e \in DOMAIN graph.edges :
          /\ graph.edges[e].blocked
          /\ result.start \in {graph.edges[e].v1_id, graph.edges[e].v2_id}
          /\ {graph.edges[e].v1_id, graph.edges[e].v2_id}
                \ DOMAIN result.distances # {}

(***************************************************************************)
(* SpecUnknown: the operations of Graph and the three searches called once *)
(* with known and unknown ids, their return values kept in result.  None   *)
(* is <<>>, an Edge is <<its id>>, float('inf') is INF.                    *)
(***************************************************************************)
\* the graphs the calls are made on: the test's graph, the same with its
\* first edge blocked, and the same with its second edge removed
UnknownGraphs ==
    {TestGraph, Graph_block_edge(TestGraph, 0), Graph_remove_edge(TestGraph, 1)}

\* the vertex ids tried: every vertex and one id past the last
TriedVertexIds == AlgoVertexIds \cup {Len(AlgoPositions)}

\* the edge ids tried: every edge and one id past the last
TriedEdgeIds == 0..MaxAlgoEdges

\* Graph.get_edge: the first edge of adj[v1_id] that joins v1_id and v2_id
RECURSIVE GetEdgeIn(_, _, _, _)
GetEdgeIn(g, ids, v1_id, v2_id) ==
    IF ids = <<>> THEN <<>>
    ELSE LET e == g.edges[Head(ids)]
         IN  IF (e.v1_id = v1_id /\ e.v2_id = v2_id)
                \/ (e.v1_id = v2_id /\ e.v2_id = v1_id)
             THEN <<e.id>>
             ELSE GetEdgeIn(g, Tail(ids), v1_id, v2_id)

Graph_get_edge(g, v1_id, v2_id) ==
    GetEdgeIn(g, IF v1_id \in DOMAIN g.adj THEN g.adj[v1_id] ELSE <<>>,
              v1_id, v2_id)

\* what Graph.add_edge returns
Graph_add_edge_returned(g, v1_id, v2_id) ==
    IF v1_id \notin DOMAIN g.vertices \/ v2_id \notin DOMAIN g.vertices
    THEN <<>>
    ELSE <<g.next_e_id>>

\* what Graph.remove_edge returns
Graph_remove_edge_returned(g, edge_id) == edge_id \in DOMAIN g.edges

InitUnknown ==
    /\ graph \in UnknownGraphs
    /\ result = NoResult
    /\ IdleEdgeVars
    /\ IdleCombatVars

\* one call op(ids) that leaves the graph g and returns returned
Called(op, ids, g, returned) ==
    /\ result = NoResult
    /\ result' = [op |-> op, ids |-> ids, returned |-> returned]
    /\ graph' = g
    /\ UNCHANGED <<edge, combatVars>>

CallNeighbors ==
    \E v \in TriedVertexIds, include_blocked \in BOOLEAN :
        Called("neighbors", <<v>>, graph,
               Graph_neighbors(graph, v, include_blocked))

CallGetEdge ==
    \E v1 \in TriedVertexIds, v2 \in TriedVertexIds :
        Called("get_edge", <<v1, v2>>, graph, Graph_get_edge(graph, v1, v2))

CallAddEdge ==
    \E v1 \in TriedVertexIds, v2 \in TriedVertexIds :
        Called("add_edge", <<v1, v2>>,
               Graph_add_edge(graph, v1, v2, 1, "NORMAL_TUNNEL"),
               Graph_add_edge_returned(graph, v1, v2))

CallRemoveEdge ==
    \E e \in TriedEdgeIds :
        Called("remove_edge", <<e>>, Graph_remove_edge(graph, e),
               Graph_remove_edge_returned(graph, e))

CallBlockEdge ==
    \E e \in TriedEdgeIds :
        Called("block_edge", <<e>>, Graph_block_edge(graph, e), <<>>)

CallUnblockEdge ==
    \E e \in TriedEdgeIds :
        Called("unblock_edge", <<e>>, Graph_unblock_edge(graph, e), <<>>)

CallBfs ==
    \E start \in TriedVertexIds :
        Called("bfs", <<start>>, graph, Bfs(graph, start, <<>>))

CallDijkstra ==
    \E start \in TriedVertexIds,
       end \in {<<>>} \cup {<<v>> : v \in TriedVertexIds} :
        Called("dijkstra", <<start>> \o end, graph, Dijkstra(graph, start, end))

CallAStar ==
    \E start \in TriedVertexIds, goal \in TriedVertexIds :
        Called("a_star", <<start, goal>>, graph, AStar(graph, start, goal))

NextUnknown ==
    \/ CallNeighbors
    \/ CallGetEdge
    \/ CallAddEdge
    \/ CallRemoveEdge
    \/ CallBlockEdge
    \/ CallUnblockEdge
    \/ CallBfs
    \/ CallDijkstra
    \/ CallAStar

SpecUnknown == InitUnknown /\ [][NextUnknown]_vars

\* the call made in this step, op, was given an id the graph does not hold
\* among its ids at the positions at
GivenUnknown(op, at, known) ==
    /\ result = NoResult
    /\ result' # NoResult
    /\ result'.op = op
    /\ \E i \in at : i <= Len(result'.ids) /\ result'.ids[i] \notin known

NextPick == RunPickBestNeighbor

SpecPick == InitAlgo /\ [][NextPick]_vars

\* C33: _pick_best_neighbor called for a vertex without an unblocked
\* neighbour returns None (and raises nothing)
C33_NoNeighbourNoMove ==
    (result.op = "pick_best_neighbor"
       /\ UnblockedNeighbors(graph, result.from_v) = {})
    => result.best_next = <<>>

\* the pick was made for a vertex whose edges are all blocked, towards
\* another vertex
C33_Witness ==
    /\ result.op = "pick_best_neighbor"
    /\ result.from_v # result.target_v
    /\ graph.adj[result.from_v] # <<>>
    /\ UnblockedNeighbors(graph, result.from_v) = {}
    /\ result.best_next = <<>>

(***************************************************************************)
(* SpecTurn: the game of SpecMove played through gs.current_player: the    *)
(* current player moves, and end_turn is called.                           *)
(***************************************************************************)
\* GameState.end_turn: "Deprecated: Real-time game logic handled in
\* update()", the body is pass
GameState_end_turn(current_player_index) == current_player_index

\* GameState.current_player: self.players[self.current_player_index]
GameState_current_player == result.current_player_index

\* gs.end_turn()
EndTurn ==
    /\ result.calls < MaxMoves
    /\ result' = [result EXCEPT
                    !.op = "end_turn",
                    !.calls = @ + 1,
                    !.current_player_index = GameState_end_turn(@)]
    /\ UNCHANGED <<edge, graph, combatVars>>

NextTurn ==
    \/ EndTurn
    \/ \E e \in MoveEdgeIds : MovePlayer(GameState_current_player, e)

SpecTurn == InitMove /\ [][NextTurn]_vars

\* C35: an end_turn call advances current_player_index by one modulo the
\* number of players (0 -> 1 -> 0 with two players)
C35_EndTurnPassesTurn ==
    [][(result'.op = "end_turn" /\ result'.calls = result.calls + 1)
          => result'.current_player_index =
                (result.current_player_index + 1) % Cardinality(DOMAIN players)]_vars

(***************************************************************************)
(* SpecLoop: the blocking loop of trigger_combat,                          *)
(*     while not inst.ended: inst.tick(0.2)                                *)
(* on an encounter just started: the encounters of SpecBudget, which no    *)
(* death ends, and a new player against a level-1 goblin.  The loop keeps  *)
(* calling tick, so the tick is weakly fair.                               *)
(***************************************************************************)
\* the delta of the loop, 0.2 s
LoopDelta == 200

\* the new player's encounter
FreshWorld ==
    CombatManager_start_combat(
        [players |-> [id \in {BudgetPlayer} |-> Player_init(BudgetPlayer)],
         monsters |-> <<Monster_init("GOBLIN", 1)>>,
         instances |-> <<>>, grants |-> <<>>],
        <<>>, BudgetPlayer, 1)

LoopWorlds == {BudgetWorld(stamina) : stamina \in StaminaLeft} \cup {FreshWorld}

InitLoop ==
    /\ IdleEdgeVars
    /\ IdleGraphVars
    /\ \E o \in LoopWorlds :
          /\ players = o.w.players
          /\ monsters = o.w.monsters
          /\ instances = o.w.instances
          /\ grants = o.w.grants
          /\ active_instances = o.active
    /\ active_monsters = <<>>
    /\ gs_monsters = <<>>
    /\ logs = <<>>

\* inst.tick(0.2)
LoopTick == \E i \in DOMAIN instances : Tick(i, LoopDelta)

NextLoop == LoopTick

SpecLoop == InitLoop /\ [][NextLoop]_vars /\ WF_vars(LoopTick)

\* C36: the loop of ticks with a fixed positive delta sets ended, by a
\* death or by the turn budget
C36_TickLoopEnds == <>(\A i \in DOMAIN instances : instances[i].ended)

\* the loop has ended an encounter at the turn budget with a player who
\* had no stamina to attack
C36_Witness ==
    \E i \in DOMAIN instances :
        /\ instances[i].ended
        /\ instances[i].turns = instances[i].max_turns
        /\ players[instances[i].player].is_alive
        /\ players[instances[i].player].stamina < AttackStaminaCost
        /\ Monster_is_alive(monsters[instances[i].monster])

====
